---- MODULE Spec2Model ----
(***************************************************************************)
(* The instruction fetch unit of the O3 CPU (src/cpu/o3/fetch.cc), with    *)
(* the decoupled front-end (fetch target queue, FTQ) of gem5-fdp.          *)
(*                                                                         *)
(* One handler of Fetch is one operator from a state record to a state     *)
(* record; the inputs a handler reads from its collaborators (MMU, I-cache *)
(* port, decoder, branch address calculator, time buffers) are the fields  *)
(* of an oracle record the action draws with \E.  tick() is sequenced by   *)
(* the variable phase: signal ingestion, one fetch() per sub-cycle,        *)
(* pipelined accesses, the FTQ prefetcher, forwarding to decode.  The      *)
(* callbacks of the MMU and of the I-cache port run between two ticks.     *)
(***************************************************************************)
EXTENDS Integers, Sequences, FiniteSets, TLC

\* ------------------------------------------------------------ parameters
MaxThreads == 3
instSize == 1
fetchBufferSize == 2
cacheBlkSize == 4
fetchWidth == 2
decodeWidth == 2
fetchQueueSize == 2
maxOutstandingPrefetches == 1
maxOutstandingTranslations == 1

\* ---------------------------------------------------------------- bounds
\* number of cache blocks of the (wrapping) address space
NumBlocks == 1
\* number of Request objects alive at once
MaxReqs == 2
\* number of fetch targets the BAC keeps in the FTQ of a thread
MaxFTQ == 2
\* number of prefetches issued while the prefetch counters are followed
MaxPfIssued == 1

AddrSpace == NumBlocks * cacheBlkSize
Tids == 0 .. (MaxThreads - 1)
ReqIds == 1 .. MaxReqs
FtIds == 1 .. (MaxFTQ + MaxReqs)

InvalidThreadID == -1
NoReq == 0
NoFT == 0
NoPaddr == -1
\* a physical address that is not backed by memory (isMemAddr is false)
BadPaddr == 2 * AddrSpace

VARIABLES
    cfg,                    \* numThreads, numFetchingThreads, decoupledFrontEnd
    fetchStatus, pc, macroop, delayedCommit, memReq, stalls,
    fetchBufferPC, fetchBufferValid, fetchBuffer, issuePipelinedIfetch,
    fetchQueue,
    retryPkt, retryTid, cacheBlocked, interruptPending,
    outstandingPrefetches, outstandingTranslations, fetchesInProgress,
    priorityList, status_, numInst, threadFetched, status_change,
    toDecode,               \* toDecode->size of the current cycle
    reqs,                   \* the Request objects: vaddr, paddr, context
    mmuPending,             \* translations the MMU has not completed
    icachePending,          \* packets the I-cache accepted and not answered
    retryOwed,              \* the port rejected a packet and owes recvReqRetry
    trapEvent,              \* processTrapEvent
    ftq, ftqValid,          \* the fetch target queue of each thread
    phase,                  \* where tick() is; "idle" between two ticks
    sigTid,                 \* the thread whose signals tick() reads next
    squashed,               \* threads squashed by this tick's signal ingestion
    nopsBuilt,              \* fault nops built since numInst was last reset
    counted,                \* the fetchStats counters the last handler raised
    ftCalled,               \* the calls the last handler made on fetch targets
    sigSeen,                \* per thread, the signals this tick has read for it
    pfDemand,               \* per thread, the prefetch taken over as its demand
                            \* and neither answered nor squashed since
    iewInfo,                \* fromIEW->iewInfo: iqCount and ldstqCount per thread
    picked,                 \* the thread the SMT arbiter returned last
    idleFetch,              \* the arbiter found no thread in this tick's fetch
    pfStats,                \* fetchStats.pfIssued, pfReceived, pfLate, pfSquashed
    toBAC,                  \* toBAC->fetchInfo as the last handler wrote it
    stageNote,              \* the last activateStage / deactivateStage call on
                            \* the CPU, and whether one repeated the one before
    failed                  \* the first assert() that failed, "" if none

vars == <<cfg, fetchStatus, pc, macroop, delayedCommit, memReq, stalls,
          fetchBufferPC, fetchBufferValid, fetchBuffer, issuePipelinedIfetch,
          fetchQueue, retryPkt, retryTid, cacheBlocked, interruptPending,
          outstandingPrefetches, outstandingTranslations, fetchesInProgress,
          priorityList, status_, numInst, threadFetched, status_change,
          toDecode, reqs, mmuPending, icachePending, retryOwed, trapEvent,
          ftq, ftqValid, phase, sigTid, squashed, nopsBuilt, counted,
          ftCalled, sigSeen, pfDemand, iewInfo, picked, idleFetch,
          pfStats, toBAC, stageNote, failed>>

\* The state as one record, the form the handlers work on.
Cur ==
    [cfg |-> cfg, fetchStatus |-> fetchStatus, pc |-> pc, macroop |-> macroop,
     delayedCommit |-> delayedCommit, memReq |-> memReq, stalls |-> stalls,
     fetchBufferPC |-> fetchBufferPC, fetchBufferValid |-> fetchBufferValid,
     fetchBuffer |-> fetchBuffer,
     issuePipelinedIfetch |-> issuePipelinedIfetch, fetchQueue |-> fetchQueue,
     retryPkt |-> retryPkt, retryTid |-> retryTid,
     cacheBlocked |-> cacheBlocked, interruptPending |-> interruptPending,
     outstandingPrefetches |-> outstandingPrefetches,
     outstandingTranslations |-> outstandingTranslations,
     fetchesInProgress |-> fetchesInProgress, priorityList |-> priorityList,
     status_ |-> status_, numInst |-> numInst,
     threadFetched |-> threadFetched, status_change |-> status_change,
     toDecode |-> toDecode, reqs |-> reqs, mmuPending |-> mmuPending,
     icachePending |-> icachePending, retryOwed |-> retryOwed,
     trapEvent |-> trapEvent, ftq |-> ftq, ftqValid |-> ftqValid,
     phase |-> phase, sigTid |-> sigTid, squashed |-> squashed,
     nopsBuilt |-> nopsBuilt, counted |-> counted, ftCalled |-> ftCalled,
     sigSeen |-> sigSeen, pfDemand |-> pfDemand, iewInfo |-> iewInfo,
     picked |-> picked, idleFetch |-> idleFetch, pfStats |-> pfStats,
     toBAC |-> toBAC, stageNote |-> stageNote, failed |-> failed,
     oom |-> FALSE,
     ret |-> FALSE, rreq |-> NoReq]

\* ---------------------------------------------------------------- helpers
Min(a, b) == IF a < b THEN a ELSE b

\* fetchBufferAlignPC: addr & ~fetchBufferMask
fetchBufferAlignPC(addr) == addr - (addr % fetchBufferSize)

\* cacheBlockAligned: addr & ~(cacheBlkSize - 1)
cacheBlockAligned(addr) == addr - (addr % cacheBlkSize)

\* The page table of the MMU: physical memory lies above the virtual range.
Translate(vaddr) == AddrSpace + vaddr

\* System::isMemAddr
isMemAddr(paddr) == AddrSpace <= paddr /\ paddr < 2 * AddrSpace

\* fetchStats.<stat> += n.  The values of the four prefetch counters are
\* followed in the configurations that ask for it (cfg.stats); the counters
\* are written and never read by the unit.
CountBy(s, stat, n) ==
    IF s.cfg.stats /\ stat \in DOMAIN s.pfStats
    THEN [s EXCEPT !.counted = @ \cup {stat}, !.pfStats[stat] = @ + n]
    ELSE [s EXCEPT !.counted = @ \cup {stat}]

\* ++fetchStats.<stat>
Count(s, stat) == CountBy(s, stat, 1)

\* A failed assert(): the first one is remembered and the process stops.
Fail(s, what) == IF s.failed = "" THEN [s EXCEPT !.failed = what] ELSE s

\* answered: the I-cache has answered a packet of the request, which then
\* carries its access depth and latency
FreeReq == [vaddr |-> 0, paddr |-> NoPaddr, tid |-> 0, live |-> FALSE,
            answered |-> FALSE]

\* The requests some pointer still refers to (RequestPtr is a shared_ptr).
ReqRefs(s) ==
    {s.memReq[t] : t \in Tids} \cup {s.retryPkt}
        \cup {tr.req : tr \in s.mmuPending}
        \cup {r \in ReqIds : s.icachePending[r] > 0}
        \cup {s.trapEvent.req}
        \cup UNION {{s.ftq[t][i].req : i \in 1 .. Len(s.ftq[t])} : t \in Tids}

\* std::make_shared<Request>: the lowest identity no pointer refers to.
FreeIds(s) == {r \in ReqIds : ~s.reqs[r].live}
NewReqId(s) == IF FreeIds(s) = {} THEN NoReq
               ELSE CHOOSE r \in FreeIds(s) : \A q \in FreeIds(s) : r <= q

\* Requests nothing refers to any more are destroyed.
Collect(s) ==
    [s EXCEPT !.reqs = [r \in ReqIds |->
                          IF r \in ReqRefs(s) THEN s.reqs[r] ELSE FreeReq],
              !.pfDemand = [t \in Tids |->
                              IF s.pfDemand[t] \in ReqRefs(s)
                              THEN s.pfDemand[t] ELSE NoReq]]

ActiveThreads(s) == [i \in 1 .. s.cfg.numThreads |-> i - 1]
\* ------------------------------------------------- fetch targets and FTQ
\* The FTQ and its fetch targets live outside fetch.cc; these operators are
\* the interface fetch.cc calls, with the behaviour the specification gives.
FTStateSet == {"Initial", "TranslationInProgress", "TranslationReady",
               "TranslationFailed", "PrefetchInProgress", "ReadyToFetch"}

\* a fetch target covers the addresses start .. end of one cache block; it
\* falls through when it runs to the end of the block
NewFT(id, start, end) ==
    [id |-> id, start |-> start, end |-> end, state |-> "Initial",
     req |-> NoReq, paddr |-> NoPaddr,
     fallThrough |-> (end % cacheBlkSize = cacheBlkSize - 1)]

ftSize(s, tid) == Len(s.ftq[tid])
ftIsEmpty(s, tid) == Len(s.ftq[tid]) = 0
ftIsValid(s, tid) == s.ftqValid[tid]
ftIsHeadReady(s, tid) == s.ftqValid[tid] /\ Len(s.ftq[tid]) > 0
\* readHead / readNextHead give a position in the queue, 0 for nullptr
ftReadHead(s, tid) == IF Len(s.ftq[tid]) > 0 THEN 1 ELSE 0
ftReadNextHead(s, tid) == IF Len(s.ftq[tid]) > 1 THEN 2 ELSE 0
ftGetBlkAddr(ft) == cacheBlockAligned(ft.start)
ftInRange(ft, addr) == ft.start <= addr /\ addr <= ft.end
ftHasPaddr(ft) == ft.paddr # NoPaddr
ftRequiresTranslation(ft) == ft.state = "Initial"
ftTranslationReady(ft) == ft.state = "TranslationReady"

\* findAfterHead with the three predicates fetch.cc passes: 0 when none.
FirstAfterHead(s, tid, P(_)) ==
    LET hits == {i \in 2 .. Len(s.ftq[tid]) : P(s.ftq[tid][i])}
    IN  IF hits = {} THEN 0
        ELSE CHOOSE i \in hits : \A j \in hits : i <= j

\* the position of the fetch target a FetchTargetPtr points to, 0 when the
\* fetch target has left the FTQ (ft->isValid() is then false)
FtIndex(s, tid, id) ==
    LET hits == {i \in 1 .. Len(s.ftq[tid]) : s.ftq[tid][i].id = id}
    IN  IF id = NoFT \/ hits = {} THEN 0 ELSE CHOOSE i \in hits : TRUE

\* a call of fetch.cc on a fetch target: the method, the state the target
\* was in and whether its FTQ was valid
FtCall(s, tid, i, method) ==
    [s EXCEPT !.ftCalled = @ \cup {[call |-> method,
                                    from |-> s.ftq[tid][i].state,
                                    valid |-> s.ftqValid[tid]]}]

ftMarkReady(s, tid, i) ==
    [FtCall(s, tid, i, "markReady") EXCEPT
       !.ftq[tid][i].state = "ReadyToFetch"]
ftPrefetchIssued(s, tid, i) ==
    [FtCall(s, tid, i, "prefetchIssued") EXCEPT
       !.ftq[tid][i].state = "PrefetchInProgress"]
ftPopReq(s, tid, i) == [s EXCEPT !.ftq[tid][i].req = NoReq]
ftStartTranslation(s, tid, i, req) ==
    [FtCall(s, tid, i, "startTranslation") EXCEPT
       !.ftq[tid][i].req = req,
       !.ftq[tid][i].state = "TranslationInProgress"]
ftFinishTranslation(s, tid, i, fault, req) ==
    IF s.ftq[tid][i].state # "TranslationInProgress" THEN s
    ELSE IF fault THEN [s EXCEPT !.ftq[tid][i].state = "TranslationFailed"]
    ELSE [s EXCEPT !.ftq[tid][i].state = "TranslationReady",
                   !.ftq[tid][i].paddr = s.reqs[req].paddr]
ftInvalidate(s, tid) == [s EXCEPT !.ftqValid[tid] = FALSE]
\* updateHead: the head is consumed; the BAC agrees when the next fetch
\* target, if there is one, covers the PC fetch has reached
ftUpdateHead(s, tid) ==
    LET rest == Tail(s.ftq[tid])
        ok == Len(rest) = 0 \/ ftInRange(rest[1], s.pc[tid])
    IN  [s EXCEPT !.ftq[tid] = rest, !.ret = ok]

\* ------------------------------------------------------------- handlers
checkStall(s, tid) == s.stalls[tid].drain

\* cpu->activateStage(FetchIdx) and cpu->deactivateStage(FetchIdx)
notifyStage(s, call) ==
    [s EXCEPT !.stageNote = [last |-> call,
                             repeated |-> @.repeated \/ @.last = call]]

switchToActive(s) ==
    IF s.status_ = "Inactive"
    THEN [notifyStage(s, "activateStage") EXCEPT !.status_ = "Active"]
    ELSE s

\* updateFetchStatus that notifies the CPU whatever _status is
updateFetchStatus_Unguarded(s) ==
    IF \E t \in 0 .. (s.cfg.numThreads - 1) :
          s.fetchStatus[t] \in {"Running", "Squashing", "IcacheAccessComplete"}
    THEN [notifyStage(s, "activateStage") EXCEPT !.ret = "Active"]
    ELSE [notifyStage(s, "deactivateStage") EXCEPT !.ret = "Inactive"]

\* updateFetchStatus: the status it returns is left in ret
updateFetchStatus(s) ==
    IF \E t \in 0 .. (s.cfg.numThreads - 1) :
          s.fetchStatus[t] \in {"Running", "Squashing", "IcacheAccessComplete"}
    THEN [(IF s.status_ = "Inactive" THEN notifyStage(s, "activateStage")
           ELSE s) EXCEPT !.ret = "Active"]
    ELSE [(IF s.status_ = "Active" THEN notifyStage(s, "deactivateStage")
           ELSE s) EXCEPT !.ret = "Inactive"]

\* _status = updateFetchStatus()
assignStatus(s) ==
    LET s1 == updateFetchStatus(s)
    IN  [s1 EXCEPT !.status_ = s1.ret, !.ret = s.ret]

\* buildInst as far as the fetch queue goes: the two asserts and the push
buildInst(s, tid, kind, delayed) ==
    LET s1 == IF s.numInst < fetchWidth THEN s
              ELSE Fail(s, "buildInst: numInst < fetchWidth")
        s2 == [s1 EXCEPT !.fetchQueue[tid] = Append(@, kind),
                         !.delayedCommit[tid] = delayed]
    IN  IF Len(s2.fetchQueue[tid]) <= fetchQueueSize THEN s2
        ELSE Fail(s2, "buildInst: fetchQueue.size <= fetchQueueSize")

\* processTrap without its capacity test: the nop is built at once
processTrap_NoDeferral(s, tid, req) ==
    LET s1 == [s EXCEPT !.memReq[tid] = NoReq]
        s2 == buildInst(s1, tid, "nop", FALSE)
    IN  [s2 EXCEPT !.fetchStatus[tid] = "TrapPending",
                   !.nopsBuilt = @ + 1]

processTrap(s, tid, req) ==
    IF ~(s.numInst < fetchWidth)
          \/ ~(Len(s.fetchQueue[tid]) < fetchQueueSize)
    THEN LET s1 == IF s.trapEvent.scheduled
                   THEN Fail(s, "processTrap: !processTrapEvent.scheduled()")
                   ELSE s
         IN  [s1 EXCEPT !.trapEvent =
                          [scheduled |-> TRUE, tid |-> tid, req |-> req,
                           fresh |-> FALSE]]
    ELSE LET s1 == [s EXCEPT !.memReq[tid] = NoReq]
             s2 == buildInst(s1, tid, "nop", FALSE)
         IN  [s2 EXCEPT !.fetchStatus[tid] = "TrapPending",
                        !.nopsBuilt = @ + 1]

performCacheAccess(s, vaddr, tid, req, prefetch, accept) ==
    IF ~isMemAddr(s.reqs[req].paddr)
    THEN [s EXCEPT !.fetchStatus[tid] = "NoGoodAddr",
                   !.memReq[tid] = NoReq, !.ret = FALSE]
    ELSE
      LET s1 == IF prefetch THEN s
                ELSE LET a == [s EXCEPT !.fetchBufferPC[tid] = vaddr,
                                        !.fetchBufferValid[tid] = FALSE]
                     IN  IF vaddr = s.reqs[req].vaddr THEN a
                         ELSE Fail(a, "performCacheAccess: vaddr == getVaddr()")
      IN  IF ~accept
          THEN LET s2 == IF s1.retryPkt = NoReq THEN s1
                         ELSE Fail(s1, "performCacheAccess: retryPkt == NULL")
                   s3 == IF s2.retryTid = InvalidThreadID THEN s2
                         ELSE Fail(s2, "performCacheAccess: retryTid == InvalidThreadID")
                   s4 == [s3 EXCEPT !.retryOwed = TRUE, !.ret = FALSE]
               IN  IF prefetch THEN s4
                   ELSE [s4 EXCEPT !.fetchStatus[tid] = "IcacheWaitRetry",
                                   !.retryPkt = req, !.retryTid = tid,
                                   !.cacheBlocked = TRUE]
          ELSE LET s2 == [s1 EXCEPT
                            !.fetchesInProgress = @ \cup {s.reqs[req].paddr},
                            !.icachePending[req] = @ + 1, !.ret = TRUE]
               IN  IF prefetch THEN s2
                   ELSE [s2 EXCEPT !.fetchStatus[tid] = "IcacheWaitResponse"]

trySatisfyPrefetch(s, tid, req) ==
    IF ~s.cfg.decoupledFrontEnd THEN [s EXCEPT !.ret = FALSE]
    ELSE LET HasReq(ft) == ft.req = req
             i == FirstAfterHead(s, tid, HasReq)
         IN  IF i = 0 THEN [s EXCEPT !.ret = FALSE]
             ELSE [Count(ftMarkReady(s, tid, i), "pfReceived") EXCEPT
                     !.outstandingPrefetches = @ - 1, !.ret = TRUE]

\* processCacheCompletion that takes the packet and wakes no thread
processCacheCompletion_NoWake(s, req) ==
    [s EXCEPT !.fetchesInProgress = @ \ {s.reqs[req].paddr}]

\* processCacheCompletion without the comparison of the packet's request
\* with memReq[tid]
processCacheCompletion_AnyResponse(s, req) ==
    LET tid == s.reqs[req].tid
        s1 == [s EXCEPT !.fetchesInProgress = @ \ {s.reqs[req].paddr},
                        !.pfDemand[tid] = IF @ = req THEN NoReq ELSE @]
    IN  IF s1.fetchStatus[tid] # "IcacheWaitResponse"
        THEN LET a == trySatisfyPrefetch(s1, tid, req)
             IN  IF a.ret THEN a ELSE Count(a, "icacheSquashes")
        ELSE LET s2 == switchToActive(
                         [s1 EXCEPT !.fetchBuffer[tid] = s.reqs[req].vaddr,
                                    !.fetchBufferValid[tid] = TRUE])
             IN  [s2 EXCEPT !.fetchStatus[tid] =
                               IF checkStall(s2, tid) THEN "Blocked"
                               ELSE "IcacheAccessComplete",
                            !.memReq[tid] = NoReq]

processCacheCompletion(s, req) ==
    LET tid == s.reqs[req].tid
        s1 == [s EXCEPT !.fetchesInProgress = @ \ {s.reqs[req].paddr},
                        !.pfDemand[tid] = IF @ = req THEN NoReq ELSE @]
    IN  IF s1.fetchStatus[tid] # "IcacheWaitResponse" \/ req # s1.memReq[tid]
        THEN LET a == trySatisfyPrefetch(s1, tid, req)
             IN  IF a.ret THEN a ELSE Count(a, "icacheSquashes")
        ELSE LET s2 == switchToActive(
                         [s1 EXCEPT !.fetchBuffer[tid] = s.reqs[req].vaddr,
                                    !.fetchBufferValid[tid] = TRUE])
             IN  [s2 EXCEPT !.fetchStatus[tid] =
                               IF checkStall(s2, tid) THEN "Blocked"
                               ELSE "IcacheAccessComplete",
                            !.memReq[tid] = NoReq]
\* finishTranslation without the comparison of the request with memReq[tid]
finishTranslation_StatusOnly(s, fault, req, ftid, accept) ==
    LET tid == s.reqs[req].tid
        fti == FtIndex(s, tid, ftid)
        s0 == [s EXCEPT !.outstandingTranslations = @ - 1]
    IN  IF s0.fetchStatus[tid] # "ItlbWait"
        THEN IF fti # 0 THEN ftFinishTranslation(s0, tid, fti, fault, req)
             ELSE Count(s0, "tlbSquashes")
        ELSE LET s1 == IF fti # 0
                       THEN ftFinishTranslation(s0, tid, fti, fault, req)
                       ELSE s0
                 s2 == IF ~fault
                       THEN performCacheAccess(s1, s1.reqs[req].vaddr, tid,
                                               req, FALSE, accept)
                       ELSE processTrap(s1, tid, req)
             IN  assignStatus(s2)

\* finishTranslation: fault is the MMU's verdict for req, ftid the fetch
\* target the FetchTranslation was created with, accept the answer of the
\* I-cache port should the demand access be sent
finishTranslation(s, fault, req, ftid, accept) ==
    LET tid == s.reqs[req].tid
        fti == FtIndex(s, tid, ftid)
        s0 == [s EXCEPT !.outstandingTranslations = @ - 1]
    IN  IF s0.fetchStatus[tid] # "ItlbWait" \/ req # s0.memReq[tid]
        THEN IF fti # 0 THEN ftFinishTranslation(s0, tid, fti, fault, req)
             ELSE Count(s0, "tlbSquashes")
        ELSE LET s1 == IF fti # 0
                       THEN ftFinishTranslation(s0, tid, fti, fault, req)
                       ELSE s0
                 s2 == IF ~fault
                       THEN performCacheAccess(s1, s1.reqs[req].vaddr, tid,
                                               req, FALSE, accept)
                       ELSE processTrap(s1, tid, req)
             IN  assignStatus(s2)

\* The MMU writes the physical address into the request it translated.
mmuResult(s, req, res) ==
    [s EXCEPT !.reqs[req].paddr =
                 IF res = "ok" THEN Translate(s.reqs[req].vaddr)
                 ELSE IF res = "bad" THEN BadPaddr ELSE NoPaddr]

\* startTranslation that does not count the translation it hands over
startTranslation_Uncounted(s, req, tid, fti, mmu, accept) ==
    LET s1 == IF fti # 0 THEN ftStartTranslation(s, tid, fti, req) ELSE s
        ftid == IF fti # 0 THEN s.ftq[tid][fti].id ELSE NoFT
    IN  IF mmu = "async"
        THEN [s1 EXCEPT !.mmuPending = @ \cup {[req |-> req, ft |-> ftid]}]
        ELSE finishTranslation(
               mmuResult([s1 EXCEPT !.outstandingTranslations = @ + 1],
                         req, mmu), mmu = "fault", req, ftid, accept)

\* startTranslation: mmu says whether translateTiming calls back at once
\* ("ok", "bad", "fault") or later ("async")
startTranslation(s, req, tid, fti, mmu, accept) ==
    LET s1 == IF fti # 0 THEN ftStartTranslation(s, tid, fti, req) ELSE s
        ftid == IF fti # 0 THEN s.ftq[tid][fti].id ELSE NoFT
        s2 == [s1 EXCEPT !.outstandingTranslations = @ + 1]
    IN  IF mmu = "async"
        THEN [s2 EXCEPT !.mmuPending = @ \cup {[req |-> req, ft |-> ftid]}]
        ELSE finishTranslation(mmuResult(s2, req, mmu), mmu = "fault", req,
                               ftid, accept)

\* makeRequest: the request is left in rreq
makeRequest(s, vaddr, tid, fti) ==
    LET reuse == /\ fti # 0
                 /\ s.ftq[tid][fti].req # NoReq
                 /\ s.reqs[s.ftq[tid][fti].req].vaddr = vaddr
        req == IF reuse THEN s.ftq[tid][fti].req ELSE NewReqId(s)
        s1 == IF reuse THEN ftMarkReady(ftPopReq(s, tid, fti), tid, fti)
              ELSE IF req = NoReq THEN [s EXCEPT !.oom = TRUE]
              ELSE [s EXCEPT !.reqs[req] = [vaddr |-> vaddr, paddr |-> NoPaddr,
                                           tid |-> tid, live |-> TRUE,
                                           answered |-> FALSE]]
        usePa == /\ fti # 0
                 /\ ftHasPaddr(s.ftq[tid][fti])
                 /\ ftGetBlkAddr(s.ftq[tid][fti]) = cacheBlockAligned(vaddr)
        cl_pa == cacheBlockAligned(s.ftq[tid][fti].paddr)
                    + (vaddr % cacheBlkSize)
    IN  IF req = NoReq THEN [s1 EXCEPT !.rreq = NoReq]
        ELSE IF usePa
        THEN [s1 EXCEPT !.reqs[req].paddr = cl_pa, !.rreq = req]
        ELSE [s1 EXCEPT !.rreq = req]

\* the fetch target fetchCacheLine works with: the head, the next head when
\* the block is the one after a head that falls through, or none (0)
fetchCacheLineFT(s, vaddr, tid) ==
    LET cacheBlock == cacheBlockAligned(vaddr)
        h == ftReadHead(s, tid)
        n == ftReadNextHead(s, tid)
    IN  IF ~s.cfg.decoupledFrontEnd \/ h = 0 THEN 0
        ELSE IF ftGetBlkAddr(s.ftq[tid][h]) = cacheBlock THEN h
        ELSE IF ~s.ftq[tid][h].fallThrough THEN 0
        ELSE IF n # 0 /\ ftGetBlkAddr(s.ftq[tid][n]) # cacheBlock THEN 0
        ELSE n

\* the tail of fetchCacheLine: a new request, then cache access or translation
fetchCacheLineIssue(s, vaddr, tid, fti, o) ==
    LET blockPC == fetchBufferAlignPC(vaddr)
        s1 == makeRequest(s, blockPC, tid, fti)
        req == s1.rreq
        s2 == [s1 EXCEPT !.memReq[tid] = req]
    IN  IF req = NoReq THEN s1
        ELSE IF s2.reqs[req].paddr # NoPaddr
        THEN performCacheAccess(s2, blockPC, tid, req, FALSE, o.accept)
        ELSE startTranslation([s2 EXCEPT !.fetchStatus[tid] = "ItlbWait"],
                              req, tid, fti, o.mmu, o.accept)

\* the case PrefetchInProgress of fetchCacheLine with a cache access for the
\* request it takes over
promotePrefetch_Resend(s, tid, fti, blockPC) ==
    LET req == s.ftq[tid][fti].req
        a == [s EXCEPT !.outstandingPrefetches = @ - 1,
                       !.memReq[tid] = req, !.pfDemand[tid] = req]
    IN  performCacheAccess(
          Count(ftMarkReady(ftPopReq(a, tid, fti), tid, fti), "pfLate"),
          blockPC, tid, req, FALSE, TRUE)

\* the case PrefetchInProgress of fetchCacheLine: the prefetch in flight
\* becomes the demand
promotePrefetch(s, tid, fti, blockPC) ==
    LET a == [s EXCEPT !.outstandingPrefetches = @ - 1,
                       !.fetchStatus[tid] = "IcacheWaitResponse",
                       !.fetchBufferPC[tid] = blockPC,
                       !.fetchBufferValid[tid] = FALSE,
                       !.memReq[tid] = s.ftq[tid][fti].req,
                       !.pfDemand[tid] = s.ftq[tid][fti].req]
    IN  Count(ftMarkReady(ftPopReq(a, tid, fti), tid, fti), "pfLate")

fetchCacheLine(s, vaddr, tid, o) ==
    IF s.cacheBlocked THEN [s EXCEPT !.ret = FALSE]
    ELSE IF s.interruptPending /\ ~s.delayedCommit[tid]
    THEN [s EXCEPT !.ret = FALSE]
    ELSE
      LET blockPC == fetchBufferAlignPC(vaddr)
          s0 == IF s.cfg.decoupledFrontEnd /\ ftReadHead(s, tid) = 0
                THEN Fail(s, "fetchCacheLine: ft") ELSE s
          fti == fetchCacheLineFT(s0, vaddr, tid)
          st == IF fti = 0 THEN "none" ELSE s0.ftq[tid][fti].state
          s9 ==
            CASE st = "PrefetchInProgress" ->
                   promotePrefetch(s0, tid, fti, blockPC)
              [] st = "TranslationInProgress" ->
                   LET a == [s0 EXCEPT !.fetchStatus[tid] = "ItlbWait",
                                       !.memReq[tid] = s0.ftq[tid][fti].req]
                   IN  ftMarkReady(ftPopReq(a, tid, fti), tid, fti)
              [] st = "TranslationFailed" ->
                   processTrap(s0, tid, s0.ftq[tid][fti].req)
              [] OTHER -> fetchCacheLineIssue(s0, vaddr, tid, fti, o)
      IN  [s9 EXCEPT !.ret = TRUE]
\* doSquash that drops the outstanding prefetches without counting them
doSquash_Uncounted(s, new_pc, keepMacro, tid) ==
    LET s1 == [s EXCEPT !.pc[tid] = new_pc, !.macroop[tid] = keepMacro]
        s2 == IF s1.fetchStatus[tid] \in {"IcacheWaitResponse", "ItlbWait"}
              THEN [s1 EXCEPT !.memReq[tid] = NoReq] ELSE s1
    IN  [s2 EXCEPT !.fetchStatus[tid] = "Squashing",
                   !.fetchQueue[tid] = <<>>,
                   !.delayedCommit[tid] = TRUE,
                   !.outstandingPrefetches = 0,
                   !.pfDemand[tid] = NoReq,
                   !.squashed = @ \cup {tid}]

\* doSquash that leaves the thread's fetch queue as it is
doSquash_KeepQueue(s, new_pc, keepMacro, tid) ==
    [doSquash_Uncounted(s, new_pc, keepMacro, tid)
       EXCEPT !.fetchQueue[tid] = s.fetchQueue[tid]]

\* doSquash: keepMacro says that squashInst is a micro-op at new_pc that is
\* not the last one of its macro-op
doSquash(s, new_pc, keepMacro, tid) ==
    LET s1 == [s EXCEPT !.pc[tid] = new_pc, !.macroop[tid] = keepMacro]
        s2 == IF s1.fetchStatus[tid] \in {"IcacheWaitResponse", "ItlbWait"}
              THEN [s1 EXCEPT !.memReq[tid] = NoReq] ELSE s1
        s3 == IF s2.retryTid = tid
              THEN LET a == IF s2.cacheBlocked THEN s2
                            ELSE Fail(s2, "doSquash: cacheBlocked")
                   IN  [a EXCEPT !.retryPkt = NoReq,
                                 !.retryTid = InvalidThreadID]
              ELSE s2
        s4 == CountBy(s3, "pfSquashed", s3.outstandingPrefetches)
    IN  [s4 EXCEPT !.fetchStatus[tid] = "Squashing",
                   !.fetchQueue[tid] = <<>>,
                   !.delayedCommit[tid] = TRUE,
                   !.outstandingPrefetches = 0,
                   !.pfDemand[tid] = NoReq,
                   !.squashed = @ \cup {tid}]

\* squash (from commit) and squashFromDecode differ in what they ask the CPU
\* to remove from its instruction list, which is not fetch state
squash(s, new_pc, keepMacro, tid) == doSquash(s, new_pc, keepMacro, tid)
squashFromDecode(s, new_pc, keepMacro, tid) ==
    doSquash(s, new_pc, keepMacro, tid)

\* checkSignalsAndUpdate with the squash of decode looked at before the
\* squash of commit
checkSignalsAndUpdate_DecodeFirst(s, tid, sig) ==
    IF sig.decodeSquash /\ s.fetchStatus[tid] # "Squashing"
    THEN [squashFromDecode(s, sig.decodePC, sig.keepMacro, tid)
            EXCEPT !.ret = TRUE]
    ELSE IF sig.commitSquash
    THEN [squash(s, sig.commitPC, sig.keepMacro, tid) EXCEPT !.ret = TRUE]
    ELSE [s EXCEPT !.ret = FALSE]

\* checkSignalsAndUpdate: sig is what the time buffers show for tid
\* checkSignalsAndUpdate that squashes from decode also while Squashing
checkSignalsAndUpdate_SquashAgain(s, tid, sig) ==
    IF sig.commitSquash
    THEN [squash(s, sig.commitPC, sig.keepMacro, tid) EXCEPT !.ret = TRUE]
    ELSE IF sig.decodeSquash
    THEN [squashFromDecode(s, sig.decodePC, sig.keepMacro, tid)
            EXCEPT !.ret = TRUE]
    ELSE checkSignalsAndUpdate_DecodeFirst(s, tid, sig)

checkSignalsAndUpdate(s, tid, sig) ==
    LET s1 == IF sig.decodeBlock THEN [s EXCEPT !.stalls[tid].decode = TRUE]
              ELSE s
        s2 == IF sig.decodeUnblock
              THEN [s1 EXCEPT !.stalls[tid].decode = FALSE] ELSE s1
    IN  IF sig.commitSquash
        THEN [squash(s2, sig.commitPC, sig.keepMacro, tid) EXCEPT !.ret = TRUE]
        ELSE IF sig.decodeSquash /\ s2.fetchStatus[tid] # "Squashing"
        THEN [squashFromDecode(s2, sig.decodePC, sig.keepMacro, tid)
                EXCEPT !.ret = TRUE]
        ELSE IF checkStall(s2, tid)
                /\ s2.fetchStatus[tid] \notin
                     {"IcacheWaitResponse", "IcacheWaitRetry", "ItlbWait",
                      "FTQEmpty", "QuiescePending"}
        THEN [s2 EXCEPT !.fetchStatus[tid] = "Blocked", !.ret = TRUE]
        ELSE IF s2.fetchStatus[tid] \in {"Blocked", "Squashing"}
        THEN [s2 EXCEPT !.fetchStatus[tid] =
                           IF s2.cfg.decoupledFrontEnd /\ ftIsEmpty(s2, tid)
                           THEN "FTQEmpty" ELSE "Running",
                        !.ret = TRUE]
        ELSE IF s2.fetchStatus[tid] = "FTQEmpty" /\ ~ftIsEmpty(s2, tid)
        THEN [s2 EXCEPT !.fetchStatus[tid] = "Running", !.ret = TRUE]
        ELSE [s2 EXCEPT !.ret = FALSE]

\* recvReqRetry that leaves the cache blocked after a resend the port took
recvReqRetry_StaysBlocked(s, accept) ==
    IF s.retryPkt # NoReq /\ s.retryTid # InvalidThreadID
    THEN IF accept
         THEN [s EXCEPT !.fetchStatus[s.retryTid] = "IcacheWaitResponse",
                        !.icachePending[s.retryPkt] = @ + 1,
                        !.retryPkt = NoReq,
                        !.retryTid = InvalidThreadID]
         ELSE [s EXCEPT !.retryOwed = TRUE]
    ELSE [s EXCEPT !.cacheBlocked = FALSE]

\* recvReqRetry that leaves cacheBlocked set when the packet was squashed
recvReqRetry_KeepsBlock(s, accept) ==
    IF s.retryPkt # NoReq THEN recvReqRetry_StaysBlocked(s, accept)
    ELSE s

\* recvReqRetry: accept is the port's answer to the resend
recvReqRetry(s, accept) ==
    IF s.retryPkt # NoReq
    THEN LET s1 == IF s.cacheBlocked THEN s
                   ELSE Fail(s, "recvReqRetry: cacheBlocked")
             s2 == IF s1.retryTid # InvalidThreadID THEN s1
                   ELSE Fail(s1, "recvReqRetry: retryTid != InvalidThreadID")
             s3 == IF s2.retryTid # InvalidThreadID
                      /\ s2.fetchStatus[s2.retryTid] = "IcacheWaitRetry"
                   THEN s2
                   ELSE Fail(s2, "recvReqRetry: fetchStatus[retryTid] == IcacheWaitRetry")
         IN  IF s3.retryTid = InvalidThreadID THEN s3
             ELSE IF accept
             THEN [s3 EXCEPT !.fetchStatus[s.retryTid] = "IcacheWaitResponse",
                             !.icachePending[s.retryPkt] = @ + 1,
                             !.retryPkt = NoReq,
                             !.retryTid = InvalidThreadID,
                             !.cacheBlocked = FALSE]
             ELSE [s3 EXCEPT !.retryOwed = TRUE]
    ELSE LET s1 == IF s.retryTid = InvalidThreadID THEN s
                   ELSE Fail(s, "recvReqRetry: retryTid == InvalidThreadID")
         IN  [s1 EXCEPT !.cacheBlocked = FALSE]

\* ------------------------------------------------------ SMT fetch policy
Fetchable(s, tid) ==
    s.fetchStatus[tid] \in {"Running", "IcacheAccessComplete", "Idle"}

\* roundRobin that moves the chosen thread to the head of the list
roundRobin_ToFront(s) ==
    LET hits == {i \in 1 .. Len(s.priorityList) : Fetchable(s, s.priorityList[i])}
    IN  IF hits = {} THEN [s EXCEPT !.ret = InvalidThreadID]
        ELSE LET i == CHOOSE x \in hits : \A y \in hits : x <= y
                 high_pri == s.priorityList[i]
                 rest == [j \in 1 .. (Len(s.priorityList) - 1) |->
                            IF j < i THEN s.priorityList[j]
                            ELSE s.priorityList[j + 1]]
             IN  [s EXCEPT !.priorityList = <<high_pri>> \o rest,
                           !.ret = high_pri]

\* roundRobin that leaves the priority list as it is
roundRobin_NoRotate(s) ==
    LET hits == {i \in 1 .. Len(s.priorityList) : Fetchable(s, s.priorityList[i])}
    IN  IF hits = {} THEN [s EXCEPT !.ret = InvalidThreadID]
        ELSE LET i == CHOOSE x \in hits : \A y \in hits : x <= y
             IN  [s EXCEPT !.ret = s.priorityList[i]]

\* roundRobin: the chosen thread is left in ret (InvalidThreadID for none)
roundRobin(s) ==
    LET hits == {i \in 1 .. Len(s.priorityList) : Fetchable(s, s.priorityList[i])}
    IN  IF hits = {} THEN [s EXCEPT !.ret = InvalidThreadID]
        ELSE LET i == CHOOSE x \in hits : \A y \in hits : x <= y
                 high_pri == s.priorityList[i]
                 rest == [j \in 1 .. (Len(s.priorityList) - 1) |->
                            IF j < i THEN s.priorityList[j]
                            ELSE s.priorityList[j + 1]]
             IN  [s EXCEPT !.priorityList = Append(rest, high_pri),
                           !.ret = high_pri]

\* iqCount and lsqCount: the counts of the active threads go into a priority
\* queue, lowest first, and threadMap keeps for each count the thread that
\* wrote it last; the queue is popped until the thread threadMap gives for
\* its top is fetchable
RECURSIVE countScan(_, _, _)
countScan(s, PQ, threadMap) ==
    IF PQ = <<>> THEN [s EXCEPT !.ret = InvalidThreadID]
    ELSE LET high_pri == threadMap[Head(PQ)]
         IN  IF Fetchable(s, high_pri) THEN [s EXCEPT !.ret = high_pri]
             ELSE countScan(s, Tail(PQ), threadMap)

countPolicy(s, count) ==
    LET at == ActiveThreads(s)
        counts == [i \in 1 .. Len(at) |-> count[at[i]]]
        PQ == SortSeq(counts, <)
        threadMap == [c \in {counts[i] : i \in 1 .. Len(at)} |->
                        LET is == {i \in 1 .. Len(at) : counts[i] = c}
                        IN  at[CHOOSE i \in is : \A j \in is : j <= i]]
    IN  countScan(s, PQ, threadMap)

iqCount(s) == countPolicy(s, [t \in Tids |-> s.iewInfo[t].iqCount])
lsqCount(s) == countPolicy(s, [t \in Tids |-> s.iewInfo[t].ldstqCount])

\* the threads a run of consecutive calls of roundRobin returns, the threads
\* being in the statuses sts[1] at the first call, sts[2] at the second, ...
RECURSIVE selections(_, _)
selections(s, sts) ==
    IF sts = <<>> THEN {}
    ELSE LET s1 == roundRobin([s EXCEPT !.fetchStatus = Head(sts)])
         IN  {s1.ret} \cup selections(s1, Tail(sts))

getFetchingThread(s) ==
    IF s.cfg.numThreads > 1
    THEN LET s1 == IF s.cfg.decoupledFrontEnd
                   THEN Fail(s, "getFetchingThread: !decoupledFrontEnd")
                   ELSE s
         IN  CASE s.cfg.fetchPolicy = "RoundRobin" -> roundRobin(s1)
               [] s.cfg.fetchPolicy = "IQCount" -> iqCount(s1)
               [] s.cfg.fetchPolicy = "LSQCount" -> lsqCount(s1)
               [] OTHER -> [s1 EXCEPT !.ret = InvalidThreadID]
    ELSE [s EXCEPT !.ret = IF Fetchable(s, 0) THEN 0 ELSE InvalidThreadID]
\* ------------------------------------------------------------ decode loop
\* What the decoder and the BAC make of the next instSize bytes.  "uop" is a
\* micro-op that is not the last of its macro-op (it is marked delayed
\* commit and leaves the PC on the macro-op), "branch" a control instruction
\* the BAC predicts taken to o.target.
InstKinds == {"plain", "uop", "branch", "quiesce"}

\* toBAC->fetchInfo[tid] with nothing written to it
NoResteer == [squash |-> FALSE, nextPC |-> 0]

\* bacResteer that tells the BAC and leaves the FTQ valid
bacResteer_SignalOnly(s, new_pc, tid) ==
    [s EXCEPT !.toBAC[tid] = [squash |-> TRUE, nextPC |-> new_pc]]

bacResteer(s, new_pc, tid) ==
    ftInvalidate([s EXCEPT !.toBAC[tid] = [squash |-> TRUE,
                                           nextPC |-> new_pc]], tid)

\* One pass of the loops of fetch(): L.s is the unit, L.curFT the position
\* of curFT in the FTQ (0 for nullptr), L.k the instructions built so far
\* by this call.
RECURSIVE fetchLoop(_, _, _)
fetchLoop(L, tid, o) ==
    LET s == L.s
        blockPC == fetchBufferAlignPC(s.pc[tid])
    IN  IF ~(s.numInst < fetchWidth
               /\ Len(s.fetchQueue[tid]) < fetchQueueSize
               /\ ~L.predictedBranch /\ ~L.quiesce)
        THEN L
        ELSE IF s.cfg.decoupledFrontEnd /\ (~ftIsValid(s, tid) \/ L.curFT = 0)
        THEN L
        ELSE IF ~L.curMacroop
                /\ (~s.fetchBufferValid[tid] \/ blockPC # s.fetchBufferPC[tid])
        THEN L
        ELSE
          LET kind == o.insts[L.k + 1]
              s1 == buildInst(s, tid, "inst", kind = "uop")
              next_pc == IF kind = "uop" THEN s.pc[tid]
                         ELSE IF kind = "branch" THEN o.target
                         ELSE (s.pc[tid] + instSize) % AddrSpace
              s2 == [s1 EXCEPT !.numInst = @ + 1, !.pc[tid] = next_pc]
              ft == IF L.curFT # 0
                       /\ ~ftInRange(s.ftq[tid][L.curFT], next_pc)
                    THEN 0 ELSE L.curFT
              s3 == IF kind = "quiesce"
                    THEN [s2 EXCEPT !.fetchStatus[tid] = "QuiescePending",
                                    !.status_change = TRUE]
                    ELSE s2
          IN  fetchLoop([s |-> s3, curFT |-> ft,
                         curMacroop |-> (kind = "uop"),
                         predictedBranch |-> (kind = "branch"),
                         quiesce |-> (kind = "quiesce"),
                         k |-> L.k + 1], tid, o)

\* what fetch() does for the thread it picked once the loops are over
fetchEpilogue(L, tid) ==
    LET s == L.s
        s1 == IF s.cfg.decoupledFrontEnd /\ L.curFT = 0
              THEN LET a == ftUpdateHead(s, tid)
                   IN  IF a.ret THEN a ELSE bacResteer(a, a.pc[tid], tid)
              ELSE s
        blockPC == fetchBufferAlignPC(s1.pc[tid])
    IN  [s1 EXCEPT !.macroop[tid] = L.curMacroop,
                   !.issuePipelinedIfetch[tid] =
                       /\ blockPC # s1.fetchBufferPC[tid]
                       /\ s1.fetchStatus[tid] \notin
                            {"IcacheWaitResponse", "ItlbWait", "FTQEmpty",
                             "IcacheWaitRetry", "QuiescePending"}
                       /\ ftIsHeadReady(s1, tid)
                       /\ ~L.curMacroop]

fetchDecode(s, tid, o) ==
    fetchEpilogue(fetchLoop([s |-> s, curFT |-> ftReadHead(s, tid),
                             curMacroop |-> s.macroop[tid],
                             predictedBranch |-> FALSE, quiesce |-> FALSE,
                             k |-> 0], tid, o), tid)

\* fetch() for the thread tid the arbiter returned
fetchThread(s, tid, o) ==
    LET blockPC == fetchBufferAlignPC(s.pc[tid]) IN
    IF s.cfg.decoupledFrontEnd /\ ~ftIsHeadReady(s, tid)
    THEN [s EXCEPT !.fetchStatus[tid] = "FTQEmpty", !.status_change = TRUE]
    ELSE IF s.cfg.decoupledFrontEnd
            /\ ~ftInRange(s.ftq[tid][1], s.pc[tid])
    THEN bacResteer(s, s.pc[tid], tid)
    ELSE IF s.fetchStatus[tid] = "IcacheAccessComplete"
    THEN fetchDecode([s EXCEPT !.fetchStatus[tid] = "Running",
                               !.status_change = TRUE], tid, o)
    ELSE IF s.fetchStatus[tid] = "Running"
    THEN IF ~(s.fetchBufferValid[tid] /\ blockPC = s.fetchBufferPC[tid])
            /\ ~s.macroop[tid]
         THEN fetchCacheLine(s, s.pc[tid], tid, o)
         ELSE IF s.interruptPending /\ ~s.delayedCommit[tid] THEN s
         ELSE fetchDecode(s, tid, o)
    ELSE s

\* fetch() that goes on with the loop of tick() when the arbiter has no
\* thread
fetch_NoBreak(s, o) ==
    LET s1 == getFetchingThread(s)
        tid == s1.ret
    IN  IF tid = InvalidThreadID
        THEN [s1 EXCEPT !.idleFetch = TRUE]
        ELSE fetchThread(s1, tid, o)

fetch(s, o) ==
    LET s1 == getFetchingThread(s)
        tid == s1.ret
    IN  IF tid = InvalidThreadID
        THEN [s1 EXCEPT !.threadFetched = s.cfg.numFetchingThreads,
                        !.idleFetch = TRUE]
        ELSE fetchThread(s1, tid, o)

pipelineIcacheAccesses(s, tid, o) ==
    IF ~s.issuePipelinedIfetch[tid] THEN s
    ELSE IF ~(s.fetchBufferValid[tid]
                /\ fetchBufferAlignPC(s.pc[tid]) = s.fetchBufferPC[tid])
    THEN fetchCacheLine(s, s.pc[tid], tid, o)
    ELSE s

\* ---------------------------------------------------------- FTQ prefetcher
processFTQTranslation(s, tid, o) ==
    IF ~(s.outstandingTranslations < maxOutstandingTranslations) THEN s
    ELSE LET i == FirstAfterHead(s, tid, ftRequiresTranslation)
         IN  IF i = 0 THEN s
             ELSE LET s1 == makeRequest(
                              s, fetchBufferAlignPC(s.ftq[tid][i].start),
                              tid, 0)
                  IN  IF s1.rreq = NoReq THEN s1
                      ELSE startTranslation(s1, s1.rreq, tid, i, o.pfMmu,
                                            o.accept)

processFTQPrefetch(s, tid, o) ==
    IF s.retryPkt # NoReq \/ s.cacheBlocked THEN s
    ELSE IF s.outstandingPrefetches >= maxOutstandingPrefetches THEN s
    ELSE LET i == FirstAfterHead(s, tid, ftTranslationReady)
             req == s.ftq[tid][i].req
         IN  IF i = 0 THEN s
             ELSE IF req = NoReq THEN Fail(s, "processFTQ: req != nullptr")
             ELSE IF s.reqs[req].paddr \in s.fetchesInProgress
             THEN ftMarkReady(s, tid, i)
             ELSE LET s1 == performCacheAccess(s, s.reqs[req].vaddr, tid, req,
                                               TRUE, o.pfAccept)
                  IN  IF s1.ret
                      THEN [Count(ftPrefetchIssued(s1, tid, i), "pfIssued")
                              EXCEPT !.outstandingPrefetches = @ + 1]
                      ELSE s1

processFTQ(s, tid, o) ==
    IF ftSize(s, tid) < 2 THEN s
    ELSE IF ~ftIsValid(s, tid) THEN s
    ELSE processFTQPrefetch(processFTQTranslation(s, tid, o), tid, o)

\* --------------------------------------------------- forwarding to decode
\* the forwarding loop without the test of stalls[tid].decode
RECURSIVE forwardLoop_IgnoreStall(_, _, _, _)
forwardLoop_IgnoreStall(s, at, available_insts, insts_to_decode) ==
    IF ~(available_insts # 0 /\ insts_to_decode < decodeWidth) THEN s
    ELSE LET tid == ActiveThreads(s)[at]
             nxt == IF at = s.cfg.numThreads THEN 1 ELSE at + 1
         IN  IF s.fetchQueue[tid] # <<>>
             THEN forwardLoop_IgnoreStall(
                    [s EXCEPT !.fetchQueue[tid] = Tail(@),
                              !.toDecode = @ + 1],
                    nxt, available_insts - 1, insts_to_decode + 1)
             ELSE forwardLoop_IgnoreStall(s, nxt, available_insts,
                                          insts_to_decode)

\* the loop at the end of tick(): at is the position in activeThreads
RECURSIVE forwardLoop(_, _, _, _)
forwardLoop(s, at, available_insts, insts_to_decode) ==
    IF ~(available_insts # 0 /\ insts_to_decode < decodeWidth) THEN s
    ELSE LET tid == ActiveThreads(s)[at]
             nxt == IF at = s.cfg.numThreads THEN 1 ELSE at + 1
         IN  IF ~s.stalls[tid].decode /\ s.fetchQueue[tid] # <<>>
             THEN forwardLoop([s EXCEPT !.fetchQueue[tid] = Tail(@),
                                        !.toDecode = @ + 1],
                              nxt, available_insts - 1, insts_to_decode + 1)
             ELSE forwardLoop(s, nxt, available_insts, insts_to_decode)

RECURSIVE SumAvailable(_, _)
SumAvailable(s, n) ==
    IF n = 0 THEN 0
    ELSE SumAvailable(s, n - 1)
           + (IF s.stalls[n - 1].decode THEN 0 ELSE Len(s.fetchQueue[n - 1]))

\* start: the position random_mt picks in activeThreads
forwardToDecode(s, start) ==
    LET s1 == forwardLoop(s, start, SumAvailable(s, s.cfg.numThreads), 0)
    IN  [s1 EXCEPT !.numInst = 0, !.nopsBuilt = 0]

\* processTrapEvent: the deferred processTrap, at the next clock edge.  An
\* event the handler schedules again is for the edge after this cycle's tick
\* (fresh).
NoTrapEvent == [scheduled |-> FALSE, tid |-> 0, req |-> NoReq, fresh |-> FALSE]

processTrapEventFire(s) ==
    LET r == processTrap([s EXCEPT !.trapEvent = NoTrapEvent],
                         s.trapEvent.tid, s.trapEvent.req)
    IN  IF r.trapEvent.scheduled THEN [r EXCEPT !.trapEvent.fresh = TRUE]
        ELSE r

drainStall(s, tid) ==
    LET s1 == IF ~s.stalls[tid].drain THEN s
              ELSE Fail(s, "drainStall: !stalls[tid].drain")
    IN  [s1 EXCEPT !.stalls[tid].drain = TRUE]

drainResume(s) ==
    [s EXCEPT !.stalls = [t \in Tids |->
                            IF t < s.cfg.numThreads
                            THEN [decode |-> FALSE, drain |-> FALSE]
                            ELSE s.stalls[t]]]

wakeFromQuiesce(s) == [s EXCEPT !.fetchStatus[0] = "Running"]

\* ------------------------------------------------------------------ tick
\* the head of tick(): a new cycle of the time buffers, the pipelined-fetch
\* flags cleared
tickPrologue(s) ==
    [s EXCEPT !.issuePipelinedIfetch = [t \in Tids |->
                                          IF t < s.cfg.numThreads THEN FALSE
                                          ELSE @[t]],
              !.trapEvent.fresh = FALSE,
              !.status_change = FALSE, !.toDecode = 0]

\* interruptPending / clearInterrupt of commitInfo[0]
tickInterrupts(s, irq) ==
    IF irq = "clear" THEN [s EXCEPT !.interruptPending = FALSE]
    ELSE IF irq = "pending" THEN [s EXCEPT !.interruptPending = TRUE]
    ELSE s

RECURSIVE pipelineAll(_, _, _)
pipelineAll(s, i, os) ==
    IF i >= s.cfg.numThreads THEN s
    ELSE pipelineAll(pipelineIcacheAccesses(s, i, os[i]), i + 1, os)

RECURSIVE processFTQAll(_, _, _)
processFTQAll(s, i, os) ==
    IF i >= s.cfg.numThreads THEN s
    ELSE processFTQAll(processFTQ(s, i, os[i]), i + 1, os)

\* ------------------------------------------------------------ inputs
\* An environment E names what the rest of the machine may do to the unit:
\* the squash targets commit and decode send, whether decode blocks, the
\* interrupt wire, the kinds of instruction the decoder finds and the branch
\* targets, what the MMU and the I-cache answer to a demand and to a
\* prefetch, and the fetch targets the BAC produces.
NoSig == [decodeBlock |-> FALSE, decodeUnblock |-> FALSE,
          commitSquash |-> FALSE, commitPC |-> 0,
          decodeSquash |-> FALSE, decodePC |-> 0, keepMacro |-> FALSE]

\* decode only unblocks a thread it has blocked, and never blocks and
\* unblocks in one cycle (the two asserts of checkSignalsAndUpdate)
Signals(E, tid) ==
    {NoSig}
      \cup (IF E.block /\ ~stalls[tid].decode
            THEN {[NoSig EXCEPT !.decodeBlock = TRUE]} ELSE {})
      \cup (IF stalls[tid].decode
            THEN {[NoSig EXCEPT !.decodeUnblock = TRUE]} ELSE {})
      \cup {[NoSig EXCEPT !.commitSquash = TRUE, !.commitPC = p,
                          !.keepMacro = m] :
              p \in E.commitPCs, m \in E.keepMacro}
      \cup {[NoSig EXCEPT !.decodeSquash = TRUE, !.decodePC = p] :
              p \in E.decodePCs}
      \cup (IF E.bothSquash
            THEN {[NoSig EXCEPT !.commitSquash = TRUE, !.commitPC = p,
                                !.decodeSquash = TRUE, !.decodePC = q] :
                    p \in E.commitPCs, q \in E.decodePCs}
            ELSE {})

\* raising a raised wire or clearing a cleared one changes nothing
Irqs(E) ==
    {"none"} \cup (IF ~E.irq THEN {}
                   ELSE IF interruptPending THEN {"clear"} ELSE {"pending"})

NoOracle == [mmu |-> "ok", accept |-> TRUE, pfMmu |-> "ok",
             pfAccept |-> TRUE,
             insts |-> [k \in 1 .. fetchWidth |-> "plain"], target |-> 0]

\* the answers to a demand: the cache is only asked after a translation
\* that succeeded at once
DemandOracles(E) ==
    {[NoOracle EXCEPT !.mmu = m, !.accept = a] :
       <<m, a>> \in {x \in E.mmu \X E.accept : x[1] = "ok" \/ x[2]}}

\* what the decoder finds in the buffer: nothing is decoded after a branch
\* or a quiesce
DecodeOracles(E) ==
    {[NoOracle EXCEPT !.insts = i, !.target = g] :
       <<i, g>> \in
         {x \in [1 .. fetchWidth -> E.kinds] \X E.targets :
            /\ \A k \in 2 .. fetchWidth :
                 x[1][k - 1] \in {"branch", "quiesce"} => x[1][k] = "plain"
            /\ (\A k \in 1 .. fetchWidth : x[1][k] # "branch")
                 => \A h \in E.targets : x[2] <= h}}

PrefetchOracles(E) ==
    {[NoOracle EXCEPT !.pfMmu = m, !.pfAccept = a] :
       <<m, a>> \in E.pfMmu \X E.pfAccept}

\* one oracle per thread; the threads that ask nothing get the default
PerThread(S, asks) ==
    {[t \in Tids |-> IF t \in asks THEN f[t] ELSE NoOracle] :
       f \in [asks -> S]}

\* ----------------------------------------------------------------- actions
Begin == [Cur EXCEPT !.squashed = {}, !.counted = {}, !.ftCalled = {},
                     !.sigSeen = [t \in Tids |-> NoSig],
                     !.toBAC = [t \in Tids |-> NoResteer]]

Set(s0) ==
    \E s1 \in {s0} : \E s \in {Collect(s1)} :
    /\ failed = ""
    /\ ~s1.oom
    /\ cfg' = s.cfg /\ fetchStatus' = s.fetchStatus /\ pc' = s.pc
    /\ macroop' = s.macroop /\ delayedCommit' = s.delayedCommit
    /\ memReq' = s.memReq /\ stalls' = s.stalls
    /\ fetchBufferPC' = s.fetchBufferPC
    /\ fetchBufferValid' = s.fetchBufferValid
    /\ fetchBuffer' = s.fetchBuffer
    /\ issuePipelinedIfetch' = s.issuePipelinedIfetch
    /\ fetchQueue' = s.fetchQueue /\ retryPkt' = s.retryPkt
    /\ retryTid' = s.retryTid /\ cacheBlocked' = s.cacheBlocked
    /\ interruptPending' = s.interruptPending
    /\ outstandingPrefetches' = s.outstandingPrefetches
    /\ outstandingTranslations' = s.outstandingTranslations
    /\ fetchesInProgress' = s.fetchesInProgress
    /\ priorityList' = s.priorityList /\ status_' = s.status_
    /\ numInst' = s.numInst /\ threadFetched' = s.threadFetched
    /\ status_change' = s.status_change /\ toDecode' = s.toDecode
    /\ reqs' = s.reqs /\ mmuPending' = s.mmuPending
    /\ icachePending' = s.icachePending /\ retryOwed' = s.retryOwed
    /\ trapEvent' = s.trapEvent /\ ftq' = s.ftq /\ ftqValid' = s.ftqValid
    /\ phase' = s.phase /\ sigTid' = s.sigTid /\ squashed' = s.squashed
    /\ nopsBuilt' = s.nopsBuilt /\ counted' = s.counted
    /\ ftCalled' = s.ftCalled /\ pfDemand' = s.pfDemand
    /\ sigSeen' = s.sigSeen
    /\ iewInfo' = s.iewInfo /\ picked' = s.picked
    /\ idleFetch' = s.idleFetch
    /\ s.pfStats.pfIssued <= MaxPfIssued
    /\ pfStats' = s.pfStats /\ toBAC' = s.toBAC
    /\ stageNote' = s.stageNote
    /\ failed' = s.failed

\* tick(), first part: checkSignalsAndUpdate for the next active thread;
\* after the last one the interrupt signals are read.  A trap event put off
\* to the next clock edge runs before that cycle's tick.
TickSignals(E) ==
    /\ phase \in {"idle", "signals"}
    /\ (phase = "idle" /\ trapEvent.scheduled) => trapEvent.fresh
    /\ \E sig \in Signals(E, sigTid), irq \in Irqs(E) :
         LET last == sigTid + 1 >= cfg.numThreads
             s0 == IF phase = "idle" THEN tickPrologue(Begin) ELSE Begin
             s1 == checkSignalsAndUpdate(
                     [s0 EXCEPT !.sigSeen[sigTid] = sig], sigTid, sig)
             s2 == [s1 EXCEPT !.status_change = @ \/ s1.ret]
         IN  /\ ~last => irq = "none"
             /\ Set(IF last
                    THEN [tickInterrupts(s2, irq) EXCEPT
                            !.phase = "fetch", !.sigTid = 0,
                            !.threadFetched = 0]
                    ELSE [s2 EXCEPT !.phase = "signals",
                                    !.sigTid = sigTid + 1])

\* what the MMU, the I-cache and the decoder answer in one fetch(): nothing
\* is asked of them when no thread is selected
FetchOracles(E) ==
    IF getFetchingThread(Begin).ret = InvalidThreadID THEN {NoOracle}
    ELSE DemandOracles(E) \cup DecodeOracles(E)

\* tick(), one pass of the loop over the fetching threads; the loop counter
\* is not read after the loop, it is left at the loop's bound
TickFetch(E) ==
    /\ phase = "fetch"
    /\ \E o \in FetchOracles(E) :
         LET s1 == fetch(Begin, o)
             s2 == [s1 EXCEPT !.threadFetched = @ + 1]
         IN  Set(IF s2.threadFetched < cfg.numFetchingThreads THEN s2
                 ELSE [s2 EXCEPT !.phase = "pipeline",
                                 !.threadFetched = cfg.numFetchingThreads])

\* tick(): the stage status, then the pipelined I-cache accesses; the local
\* status_change is dead from here on
TickPipeline(E) ==
    /\ phase = "pipeline"
    /\ \E os \in PerThread(DemandOracles(E),
                          {t \in Tids : t < cfg.numThreads
                                          /\ issuePipelinedIfetch[t]}) :
         LET s0 == Begin
             s1 == IF s0.status_change
                   THEN assignStatus(s0) ELSE s0
             s2 == pipelineAll(s1, 0, os)
         IN  Set([s2 EXCEPT !.status_change = FALSE,
                            !.phase = IF cfg.decoupledFrontEnd THEN "ftq"
                                      ELSE "forward"])

\* tick(): processFTQ for every thread
TickFTQ(E) ==
    /\ phase = "ftq"
    /\ \E os \in PerThread(PrefetchOracles(E),
                          {t \in Tids : t < cfg.numThreads}) :
         Set([processFTQAll(Begin, 0, os) EXCEPT !.phase = "forward"])

\* tick(), last part: the fetch queues are drained into the decode wire
TickForward ==
    /\ phase = "forward"
    /\ \E start \in 1 .. cfg.numThreads :
         Set([forwardToDecode(Begin, start) EXCEPT !.phase = "idle",
                                                   !.idleFetch = FALSE])

\* the MMU completes a translation it was given earlier
FinishTranslation(E) ==
    /\ phase = "idle"
    /\ \E tr \in mmuPending, res \in E.mmuLater, acc \in E.accept :
         LET s0 == [Begin EXCEPT !.mmuPending = @ \ {tr}]
         IN  /\ (res # "ok") => acc
             /\ Set(finishTranslation(mmuResult(s0, tr.req, res),
                                      res = "fault", tr.req, tr.ft, acc))

\* IcachePort::recvTimingResp
RecvTimingResp ==
    /\ phase = "idle"
    /\ \E req \in ReqIds :
         /\ icachePending[req] > 0
         /\ Set(processCacheCompletion(
                  [Begin EXCEPT !.icachePending[req] = @ - 1,
                                !.reqs[req].answered = TRUE], req))

\* IcachePort::recvReqRetry
RecvReqRetry(E) ==
    /\ phase = "idle"
    /\ retryOwed
    /\ \E acc \in E.accept :
         Set(recvReqRetry([Begin EXCEPT !.retryOwed = FALSE], acc))

ProcessTrapEvent ==
    /\ phase = "idle"
    /\ trapEvent.scheduled /\ ~trapEvent.fresh
    /\ Set(processTrapEventFire(Begin))

DrainStall ==
    /\ phase = "idle"
    /\ \E tid \in 0 .. (cfg.numThreads - 1) :
         /\ ~stalls[tid].drain
         /\ Set(drainStall(Begin, tid))

DrainResume ==
    /\ phase = "idle"
    /\ \E tid \in 0 .. (cfg.numThreads - 1) : stalls[tid].drain
    /\ Set(drainResume(Begin))

WakeFromQuiesce ==
    /\ phase = "idle"
    /\ Set(wakeFromQuiesce(Begin))

\* the BAC appends a fetch target to the FTQ
BacPush(E) ==
    /\ phase = "idle"
    /\ cfg.decoupledFrontEnd
    /\ \E tid \in 0 .. (cfg.numThreads - 1), sh \in E.shapes :
         /\ ftqValid[tid]
         /\ Len(ftq[tid]) < MaxFTQ
         /\ LET used == {ftq[tid][i].id : i \in 1 .. Len(ftq[tid])}
                           \cup {tr.ft : tr \in mmuPending}
                free == FtIds \ used
                id == CHOOSE x \in free : \A y \in free : x <= y
            IN  Set([Begin EXCEPT !.ftq[tid] =
                                    Append(@, NewFT(id, sh[1], sh[2]))])

\* the BAC squashes the FTQ: it is emptied and valid again
BacSquash ==
    /\ phase = "idle"
    /\ cfg.decoupledFrontEnd
    /\ \E tid \in 0 .. (cfg.numThreads - 1) :
         /\ ftq[tid] # <<>> \/ ~ftqValid[tid]
         /\ Set([Begin EXCEPT !.ftq[tid] = <<>>, !.ftqValid[tid] = TRUE])

\* ------------------------------------------------------------------ Init
\* the unit after the constructor and startupStage()
\* all of it but the thread statuses
InitFrame(c) ==
    /\ cfg = c
    /\ pc = [t \in Tids |-> 0]
    /\ macroop = [t \in Tids |-> FALSE]
    /\ delayedCommit = [t \in Tids |-> FALSE]
    /\ memReq = [t \in Tids |-> NoReq]
    /\ stalls = [t \in Tids |-> [decode |-> FALSE, drain |-> FALSE]]
    /\ fetchBufferPC = [t \in Tids |-> 0]
    /\ fetchBufferValid = [t \in Tids |-> FALSE]
    /\ fetchBuffer = [t \in Tids |-> 0]
    /\ issuePipelinedIfetch = [t \in Tids |-> FALSE]
    /\ fetchQueue = [t \in Tids |-> <<>>]
    /\ retryPkt = NoReq
    /\ retryTid = InvalidThreadID
    /\ cacheBlocked = FALSE
    /\ interruptPending = FALSE
    /\ outstandingPrefetches = 0
    /\ outstandingTranslations = 0
    /\ fetchesInProgress = {}
    /\ priorityList = [i \in 1 .. c.numThreads |-> i - 1]
    /\ status_ = "Active"
    /\ numInst = 0
    /\ threadFetched = 0
    /\ status_change = FALSE
    /\ toDecode = 0
    /\ reqs = [r \in ReqIds |-> FreeReq]
    /\ mmuPending = {}
    /\ icachePending = [r \in ReqIds |-> 0]
    /\ retryOwed = FALSE
    /\ trapEvent = NoTrapEvent
    /\ ftq = [t \in Tids |-> <<>>]
    /\ ftqValid = [t \in Tids |-> TRUE]
    /\ phase = "idle"
    /\ sigTid = 0
    /\ squashed = {}
    /\ nopsBuilt = 0
    /\ counted = {}
    /\ ftCalled = {}
    /\ pfDemand = [t \in Tids |-> NoReq]
    /\ sigSeen = [t \in Tids |-> NoSig]
    /\ iewInfo = [t \in Tids |-> [iqCount |-> 0, ldstqCount |-> 0]]
    /\ picked = InvalidThreadID
    /\ idleFetch = FALSE
    /\ pfStats = [pfIssued |-> 0, pfReceived |-> 0, pfLate |-> 0,
                  pfSquashed |-> 0]
    /\ toBAC = [t \in Tids |-> NoResteer]
    /\ stageNote = [last |-> "activateStage", repeated |-> FALSE]
    /\ failed = ""

InitWith(c) ==
    /\ InitFrame(c)
    /\ fetchStatus = [t \in Tids |-> IF t < c.numThreads THEN "Running"
                                    ELSE "Idle"]

\* ---------------------------------------------------- one thread, no FTQ
CfgBase == [numThreads |-> 1, numFetchingThreads |-> 1,
            decoupledFrontEnd |-> FALSE, fetchPolicy |-> "RoundRobin",
            stats |-> FALSE]

EnvBase ==
    [block |-> TRUE, commitPCs |-> {0}, decodePCs |-> {2},
     keepMacro |-> {FALSE}, bothSquash |-> TRUE, irq |-> FALSE,
     kinds |-> {"plain", "branch", "quiesce"}, targets |-> {3},
     mmu |-> {"async", "ok", "fault"}, accept |-> BOOLEAN,
     mmuLater |-> {"ok", "fault"},
     pfMmu |-> {"ok"}, pfAccept |-> {TRUE}, shapes |-> {}]

Init == InitWith(CfgBase)

Next ==
    \/ TickSignals(EnvBase)
    \/ TickFetch(EnvBase)
    \/ TickPipeline(EnvBase)
    \/ TickForward
    \/ FinishTranslation(EnvBase)
    \/ RecvTimingResp
    \/ RecvReqRetry(EnvBase)
    \/ ProcessTrapEvent
    \/ WakeFromQuiesce

Spec == Init /\ [][Next]_vars

\* ------------------------------------------------- two threads, no FTQ
\* Both threads may fetch in a tick.  Decode blocks and unblocks them, the
\* MMU answers at once or later, with a fault or without.
CfgSMT == [numThreads |-> 2, numFetchingThreads |-> 2,
           decoupledFrontEnd |-> FALSE, fetchPolicy |-> "RoundRobin",
            stats |-> FALSE]

EnvSMT ==
    [block |-> TRUE, commitPCs |-> {}, decodePCs |-> {},
     keepMacro |-> {FALSE}, bothSquash |-> FALSE, irq |-> FALSE,
     kinds |-> {"plain", "uop"}, targets |-> {0},
     mmu |-> {"async", "ok"}, accept |-> {TRUE},
     mmuLater |-> {"ok", "fault"},
     pfMmu |-> {"ok"}, pfAccept |-> {TRUE}, shapes |-> {}]

InitSMT == InitWith(CfgSMT)

NextSMT ==
    \/ TickSignals(EnvSMT)
    \/ TickFetch(EnvSMT)
    \/ TickPipeline(EnvSMT)
    \/ TickForward
    \/ FinishTranslation(EnvSMT)
    \/ RecvTimingResp
    \/ ProcessTrapEvent

SpecSMT == InitSMT /\ [][NextSMT]_vars

\* ------------------------------------------- one thread behind the FTQ
\* The decoupled front-end: the BAC fills and squashes the FTQ, the unit
\* translates and prefetches the targets behind the head.  The thread is
\* given both fetch slots of a tick.
CfgDFE == [numThreads |-> 1, numFetchingThreads |-> 2,
           decoupledFrontEnd |-> TRUE, fetchPolicy |-> "RoundRobin",
            stats |-> FALSE]

EnvDFE ==
    [block |-> FALSE, commitPCs |-> {0}, decodePCs |-> {},
     keepMacro |-> {FALSE}, bothSquash |-> FALSE, irq |-> FALSE,
     kinds |-> {"plain"}, targets |-> {0},
     mmu |-> {"ok"}, accept |-> {TRUE},
     mmuLater |-> {"ok"},
     pfMmu |-> {"async", "ok"}, pfAccept |-> {TRUE},
     shapes |-> {<<0, 0>>, <<1, 3>>}]

InitDFE == InitWith(CfgDFE)

NextDFE ==
    \/ TickSignals(EnvDFE)
    \/ TickFetch(EnvDFE)
    \/ TickPipeline(EnvDFE)
    \/ TickFTQ(EnvDFE)
    \/ TickForward
    \/ FinishTranslation(EnvDFE)
    \/ RecvTimingResp
    \/ BacPush(EnvDFE)
    \/ BacSquash

SpecDFE == InitDFE /\ [][NextDFE]_vars

\* ------------------------------- two threads, an I-cache that pushes back
\* The I-cache port may refuse any demand packet and any resend; the MMU
\* answers at once or later.  No squash, no fault, no decode stall.
EnvBP ==
    [block |-> FALSE, commitPCs |-> {}, decodePCs |-> {},
     keepMacro |-> {FALSE}, bothSquash |-> FALSE, irq |-> FALSE,
     kinds |-> {"plain"}, targets |-> {0},
     mmu |-> {"async", "ok"}, accept |-> BOOLEAN,
     mmuLater |-> {"ok"},
     pfMmu |-> {"ok"}, pfAccept |-> {TRUE}, shapes |-> {}]

NextBP ==
    \/ TickSignals(EnvBP)
    \/ TickFetch(EnvBP)
    \/ TickPipeline(EnvBP)
    \/ TickForward
    \/ FinishTranslation(EnvBP)
    \/ RecvTimingResp
    \/ RecvReqRetry(EnvBP)

SpecBP == InitSMT /\ [][NextBP]_vars

\* ------------------------------------- one thread, the interrupt wire
\* Commit raises and clears the interrupt wire and squashes; the decoder
\* finds micro-ops, which open a delayed-commit window.
EnvIrq ==
    [block |-> FALSE, commitPCs |-> {0}, decodePCs |-> {},
     keepMacro |-> {FALSE}, bothSquash |-> FALSE, irq |-> TRUE,
     kinds |-> {"plain", "uop"}, targets |-> {0},
     mmu |-> {"ok"}, accept |-> {TRUE},
     mmuLater |-> {"ok"},
     pfMmu |-> {"ok"}, pfAccept |-> {TRUE}, shapes |-> {}]

NextIrq ==
    \/ TickSignals(EnvIrq)
    \/ TickFetch(EnvIrq)
    \/ TickPipeline(EnvIrq)
    \/ TickForward
    \/ RecvTimingResp

SpecIrq == Init /\ [][NextIrq]_vars

\* ------------------------------------------ one thread, the drain
\* Commit and decode squash, commit sets the drain stall and lifts it; the MMU answers at
\* once, with a fault or without; the I-cache port accepts a packet or
\* refuses it and asks for it again later.
EnvDrain ==
    [block |-> FALSE, commitPCs |-> {0}, decodePCs |-> {2},
     keepMacro |-> {FALSE}, bothSquash |-> FALSE, irq |-> FALSE,
     kinds |-> {"plain"}, targets |-> {0},
     mmu |-> {"ok", "fault"}, accept |-> BOOLEAN,
     mmuLater |-> {"ok"},
     pfMmu |-> {"ok"}, pfAccept |-> {TRUE}, shapes |-> {}]

NextDrain ==
    \/ TickSignals(EnvDrain)
    \/ TickFetch(EnvDrain)
    \/ TickPipeline(EnvDrain)
    \/ TickForward
    \/ RecvTimingResp
    \/ RecvReqRetry(EnvDrain)
    \/ DrainStall
    \/ DrainResume

SpecDrain == Init /\ [][NextDrain]_vars

\* The port contract: a tick that has begun ends, and a port that is asked
\* again and again for a packet it refused accepts it in the end.
SpecDrainFair ==
    /\ SpecDrain
    /\ []<>(phase = "idle")
    /\ SF_vars(RecvReqRetry(EnvDrain) /\ ~retryOwed')

\* ----------------------------- two threads that are left to fetch
\* No squash, no interrupt, no stall, no fault: the MMU answers at once or
\* later and the I-cache accepts every packet.  The tick event of every
\* cycle runs to its end, and the MMU and the I-cache answer in the end
\* what they were asked.
EnvLive ==
    [block |-> FALSE, commitPCs |-> {}, decodePCs |-> {},
     keepMacro |-> {FALSE}, bothSquash |-> FALSE, irq |-> FALSE,
     kinds |-> {"plain"}, targets |-> {0},
     mmu |-> {"async", "ok"}, accept |-> {TRUE},
     mmuLater |-> {"ok"},
     pfMmu |-> {"ok"}, pfAccept |-> {TRUE}, shapes |-> {}]

NextLive ==
    \/ TickSignals(EnvLive)
    \/ TickFetch(EnvLive)
    \/ TickPipeline(EnvLive)
    \/ TickForward
    \/ FinishTranslation(EnvLive)
    \/ RecvTimingResp

SpecLive ==
    /\ InitSMT /\ [][NextLive]_vars
    /\ []<>(phase = "idle") /\ []<>(phase = "fetch")
    /\ \A r \in ReqIds :
         /\ SF_vars(/\ FinishTranslation(EnvLive)
                    /\ \E tr \in mmuPending \ mmuPending' : tr.req = r)
         /\ SF_vars(RecvTimingResp /\ icachePending'[r] < icachePending[r])

\* ------------------------- the FTQ prefetcher and what answers it
\* The decoupled front-end without squashes: the MMU translates a prefetch
\* to an address inside or outside physical memory, at once or later, and
\* the I-cache port accepts the prefetch packet or refuses it.
EnvPfAns ==
    [block |-> FALSE, commitPCs |-> {}, decodePCs |-> {},
     keepMacro |-> {FALSE}, bothSquash |-> FALSE, irq |-> FALSE,
     kinds |-> {"plain"}, targets |-> {0},
     mmu |-> {"ok"}, accept |-> {TRUE},
     mmuLater |-> {"ok"},
     pfMmu |-> {"async", "ok", "bad"}, pfAccept |-> BOOLEAN,
     shapes |-> {<<0, 1>>, <<2, 3>>}]

NextPfAns ==
    \/ TickSignals(EnvPfAns)
    \/ TickFetch(EnvPfAns)
    \/ TickPipeline(EnvPfAns)
    \/ TickFTQ(EnvPfAns)
    \/ TickForward
    \/ FinishTranslation(EnvPfAns)
    \/ RecvTimingResp
    \/ BacPush(EnvPfAns)

SpecPfAns == InitDFE /\ [][NextPfAns]_vars

\* ------------------------------ the FTQ prefetcher with its counters
\* The decoupled front-end as above, the prefetch counters of fetchStats
\* followed for the first MaxPfIssued prefetches.
CfgPf == [numThreads |-> 1, numFetchingThreads |-> 1,
          decoupledFrontEnd |-> TRUE, fetchPolicy |-> "RoundRobin",
          stats |-> TRUE]

EnvPf ==
    [block |-> FALSE, commitPCs |-> {0}, decodePCs |-> {},
     keepMacro |-> {FALSE}, bothSquash |-> FALSE, irq |-> FALSE,
     kinds |-> {"plain"}, targets |-> {0},
     mmu |-> {"ok"}, accept |-> {TRUE},
     mmuLater |-> {"ok"},
     pfMmu |-> {"ok"}, pfAccept |-> {TRUE},
     shapes |-> {<<0, 1>>, <<2, 3>>}]

InitPf == InitWith(CfgPf)

NextPf ==
    \/ TickSignals(EnvPf)
    \/ TickFetch(EnvPf)
    \/ TickPipeline(EnvPf)
    \/ TickFTQ(EnvPf)
    \/ TickForward
    \/ RecvTimingResp
    \/ BacPush(EnvPf)
    \/ BacSquash

SpecPf == InitPf /\ [][NextPf]_vars

\* ------------------------------------------- the SMT arbiter on its own
\* Three threads in any mix of statuses and one of the three implemented
\* fetch policies; IEW reports any counts; the arbiter is called again and
\* again.
ArbStatuses == {"Running", "IcacheAccessComplete", "Idle", "ItlbWait"}
ArbPolicies == {"RoundRobin", "IQCount", "LSQCount"}
\* the counts IEW reports are 0 .. MaxCount
MaxCount == 1

InitArb ==
    \E pol \in ArbPolicies, st \in [Tids -> ArbStatuses] :
      /\ InitFrame([numThreads |-> MaxThreads, numFetchingThreads |-> 1,
                    decoupledFrontEnd |-> FALSE, fetchPolicy |-> pol,
                    stats |-> FALSE])
      /\ fetchStatus = st

Arbitrate ==
    /\ phase = "idle"
    /\ \E info \in [Tids -> [iqCount : 0 .. MaxCount,
                              ldstqCount : 0 .. MaxCount]] :
         LET s1 == getFetchingThread([Begin EXCEPT !.iewInfo = info])
         IN  Set([s1 EXCEPT !.picked = s1.ret])

NextArb == Arbitrate

SpecArb == InitArb /\ [][NextArb]_vars

\* ------------------------------------------------------------- properties
WaitStates == {"ItlbWait", "IcacheWaitResponse", "IcacheWaitRetry"}

\* C1: in every reachable state a thread that holds a demand request
\* (memReq[tid] non-null) is in ItlbWait, IcacheWaitResponse or
\* IcacheWaitRetry.
C1_MemReqImpliesWaiting ==
    (failed = "") =>
      \A t \in Tids : memReq[t] # NoReq => fetchStatus[t] \in WaitStates

\* C2: retryPkt is non-null exactly when the cache is blocked and retryTid
\* names a thread in IcacheWaitRetry, so the asserts at the head of
\* recvReqRetry never fail.
C2_RetryPktOwned ==
    /\ failed \notin {"recvReqRetry: retryPkt != NULL",
                      "recvReqRetry: cacheBlocked",
                      "recvReqRetry: retryTid != InvalidThreadID",
                      "recvReqRetry: fetchStatus[retryTid] == IcacheWaitRetry"}
    /\ (failed = "") =>
         ((retryPkt # NoReq) <=>
            (/\ cacheBlocked
             /\ retryTid \in Tids
             /\ fetchStatus[retryTid] = "IcacheWaitRetry"))

\* C3: right after a squash of thread tid its fetch queue is empty, its
\* memReq is null and retryTid is not tid.
C3_SquashClears ==
    \A t \in squashed :
      fetchQueue[t] = <<>> /\ memReq[t] = NoReq /\ retryTid # t

\* C4: a thread waiting on its demand (ItlbWait, IcacheWaitResponse or
\* IcacheWaitRetry with memReq set) is never given another demand request:
\* memReq changes only by being dropped.
C4_OneDemandPerThread ==
    [][\A t \in Tids :
         (memReq[t] # NoReq /\ fetchStatus[t] \in WaitStates)
           => memReq'[t] \in {memReq[t], NoReq}]_vars

\* C5: a fetch queue never holds more than fetchQueueSize instructions,
\* nops of processTrap included, and the size assert of buildInst holds.
C5_FetchQueueBounded ==
    /\ failed # "buildInst: fetchQueue.size <= fetchQueueSize"
    /\ \A t \in Tids : Len(fetchQueue[t]) <= fetchQueueSize

\* C5, its case: processTrap found the queue of its thread full and put the
\* nop off to the next cycle.
C5_Witness ==
    /\ failed = ""
    /\ trapEvent.scheduled
    /\ Len(fetchQueue[trapEvent.tid]) = fetchQueueSize

\* C6: between two resets of numInst at most fetchWidth instructions are
\* built, the nops of processTrap counted, and the assert numInst <
\* fetchWidth of buildInst holds.
C6_FetchWidthPerTick ==
    /\ failed # "buildInst: numInst < fetchWidth"
    /\ numInst + nopsBuilt <= fetchWidth

QueuedUnstalled ==
    LET n(t) == IF t < cfg.numThreads /\ ~stalls[t].decode
                THEN Len(fetchQueue[t]) ELSE 0
    IN  n(0) + n(1) + n(2)

C8_PrefetchCounter ==
    0 <= outstandingPrefetches
      /\ outstandingPrefetches <= maxOutstandingPrefetches

\* C10: a valid fetch buffer is tagged with an address aligned to
\* fetchBufferSize and holds the block of that address.
C10_BufferHoldsItsBlock ==
    \A t \in Tids :
      fetchBufferValid[t] =>
        /\ fetchBufferPC[t] % fetchBufferSize = 0
        /\ fetchBuffer[t] = fetchBufferPC[t]

\* C9: after a translation is issued outstandingTranslations is at most
\* maxOutstandingTranslations.
C9_TranslationCeiling ==
    [][outstandingTranslations' > outstandingTranslations
         => outstandingTranslations' <= maxOutstandingTranslations]_vars

\* the fetch targets of thread t that hold request r
HoldersOf(t, r) == {i \in 1 .. Len(ftq[t]) : ftq[t][i].req = r}

\* C11: a cache response that is not the demand of its thread (the thread is
\* not in IcacheWaitResponse, or the packet's request is not memReq[tid])
\* leaves the fetch buffers, their valid bits, every thread status and every
\* memReq as they were, and is either adopted by a fetch target that holds
\* its request (marked ready, one prefetch fewer outstanding) or counted in
\* icacheSquashes, never both.
C11_ResponseFrame ==
    [][\A r \in ReqIds :
         (icachePending'[r] < icachePending[r]
            /\ ~(fetchStatus[reqs[r].tid] = "IcacheWaitResponse"
                   /\ memReq[reqs[r].tid] = r))
         => /\ fetchBuffer' = fetchBuffer
            /\ fetchBufferValid' = fetchBufferValid
            /\ fetchStatus' = fetchStatus
            /\ memReq' = memReq
            /\ LET t == reqs[r].tid
                   adopted ==
                     /\ outstandingPrefetches' = outstandingPrefetches - 1
                     /\ \E i \in HoldersOf(t, r) :
                          ftq'[t][i].state = "ReadyToFetch"
               IN  adopted <=> ("icacheSquashes" \notin counted')]_vars

\* C11, its case: the response of a squashed demand has come back and was
\* counted while the thread waits for the response of a newer demand.
C11_Witness ==
    /\ failed = ""
    /\ "icacheSquashes" \in counted
    /\ \E t \in Tids :
         fetchStatus[t] = "IcacheWaitResponse" /\ memReq[t] # NoReq

\* C12: when the MMU completes a translation that is not the pending demand
\* of its thread (the thread is not in ItlbWait, or the request is not
\* memReq[tid], as for a prefetch-only request or a demand squashed
\* meanwhile), no thread status and no memReq changes, no packet is sent or
\* kept for a retry, and no trap is raised or put off.
C12_StaleTranslationIgnored ==
    [][\A tr \in mmuPending :
         (tr \notin mmuPending'
            /\ ~(fetchStatus[reqs[tr.req].tid] = "ItlbWait"
                   /\ memReq[reqs[tr.req].tid] = tr.req))
         => /\ fetchStatus' = fetchStatus
            /\ memReq' = memReq
            /\ icachePending' = icachePending
            /\ fetchesInProgress' = fetchesInProgress
            /\ retryPkt' = retryPkt /\ retryTid' = retryTid
            /\ cacheBlocked' = cacheBlocked
            /\ fetchQueue' = fetchQueue
            /\ trapEvent' = trapEvent
            /\ fetchBufferPC' = fetchBufferPC
            /\ fetchBufferValid' = fetchBufferValid]_vars

\* C12, its case: the translation of a squashed demand has completed and was
\* counted in tlbSquashes while the translation of a newer demand of the
\* same thread is pending.
C12_Witness ==
    /\ failed = ""
    /\ "tlbSquashes" \in counted
    /\ \E t \in Tids :
         /\ fetchStatus[t] = "ItlbWait"
         /\ \E tr \in mmuPending : tr.req = memReq[t]

\* the packets of a step of the demand loop: sent to the I-cache, or
\* refused by it and kept for the retry
SentNow(r) ==
    icachePending'[r] > icachePending[r] \/ (retryPkt' = r /\ retryPkt # r)

\* C13 as stated: once the response to the prefetch of a fetch target has
\* arrived (the target is ReadyToFetch and holds the answered request), the
\* demand loop, come to that fetch target, sends no packet to the physical
\* address of that request.
C13_NoAccessAfterPrefetch ==
    [][\A t \in Tids : \A i \in 1 .. Len(ftq[t]) :
         (/\ phase \in {"fetch", "pipeline"}
          /\ i = fetchCacheLineFT(Cur, pc[t], t)
          /\ ftq[t][i].state = "ReadyToFetch"
          /\ ftq[t][i].req # NoReq
          /\ reqs[ftq[t][i].req].answered)
         => \A r \in ReqIds :
              SentNow(r) => reqs'[r].paddr # reqs[ftq[t][i].req].paddr]_vars

\* C13, amended: when the demand loop finds the fetch target of the block
\* in PrefetchInProgress it sends no packet, the prefetch's request becomes
\* memReq[tid] and the thread waits for its response.
C13_PromotionSendsNothing ==
    [][("pfLate" \in counted' /\ phase \in {"fetch", "pipeline"})
         => /\ \A r \in ReqIds : ~SentNow(r)
            /\ fetchesInProgress' = fetchesInProgress
            /\ \E t \in Tids :
                 /\ memReq'[t] \in {ftq[t][i].req : i \in 1 .. Len(ftq[t])}
                 /\ memReq'[t] # NoReq
                 /\ fetchStatus'[t] = "IcacheWaitResponse"]_vars

\* C13, its case: a prefetch in flight was taken over by the demand loop
\* and its packet is still on its way.
C13_Witness ==
    /\ failed = ""
    /\ "pfLate" \in counted
    /\ \E t \in Tids : memReq[t] # NoReq /\ icachePending[memReq[t]] > 0

\* C14: fetch.cc calls neither startTranslation nor prefetchIssued nor
\* markReady on a fetch target that is already ReadyToFetch while the FTQ
\* the target is in is valid.
C14_ReadyIsFinal ==
    \A c \in ftCalled : ~(c.from = "ReadyToFetch" /\ c.valid)

\* C15: a step in which the demand loop takes over a prefetch in flight
\* (the fetch target of the block was PrefetchInProgress) leaves the thread
\* in IcacheWaitResponse with the fetch target's request as memReq[tid], one
\* prefetch fewer outstanding, the target ReadyToFetch and no packet sent;
\* and when the I-cache answers that request, the thread not squashed
\* since, the fetch buffer is valid and the thread is IcacheAccessComplete,
\* or Blocked under a drain stall.
C15_PromotionThenDemand ==
    [][/\ \A t \in Tids :
            (pfDemand'[t] # NoReq /\ pfDemand'[t] # pfDemand[t])
            => LET i == fetchCacheLineFT(Cur, pc[t], t)
               IN  /\ i # 0
                   /\ ftq[t][i].state = "PrefetchInProgress"
                   /\ fetchStatus'[t] = "IcacheWaitResponse"
                   /\ memReq'[t] = ftq[t][i].req
                   /\ memReq'[t] = pfDemand'[t]
                   /\ outstandingPrefetches' = outstandingPrefetches - 1
                   /\ ftq'[t][i].state = "ReadyToFetch"
                   /\ \A r \in ReqIds : ~SentNow(r)
       /\ \A r \in ReqIds :
            (icachePending'[r] < icachePending[r]
               /\ pfDemand[reqs[r].tid] = r)
            => /\ fetchBufferValid'[reqs[r].tid]
               /\ fetchStatus'[reqs[r].tid] =
                    IF stalls[reqs[r].tid].drain THEN "Blocked"
                    ELSE "IcacheAccessComplete"]_vars

\* a thread whose demand packet the I-cache refused and that keeps it
RetryWaiting(t) ==
    fetchStatus[t] = "IcacheWaitRetry" /\ retryTid = t /\ retryPkt # NoReq

\* C16: a thread whose demand packet was refused stays in IcacheWaitRetry
\* with retryPkt held and cacheBlocked set, unless it is squashed, until
\* recvReqRetry resends the packet and the I-cache accepts it, which takes
\* the thread to IcacheWaitResponse.
C16_WaitsForRetry ==
    [][\A t \in Tids :
         (failed = "" /\ RetryWaiting(t) /\ t \notin squashed')
         => \/ /\ fetchStatus'[t] = "IcacheWaitRetry"
               /\ retryPkt' = retryPkt /\ retryTid' = t /\ cacheBlocked'
               /\ failed' = ""
            \/ /\ fetchStatus'[t] = "IcacheWaitResponse"
               /\ retryPkt' = NoReq /\ ~cacheBlocked'
               /\ icachePending'[retryPkt] = icachePending[retryPkt] + 1]_vars

\* C17: whenever the port owes the unit a retry, recvReqRetry does one of
\* three things.  With retryPkt held and the resend accepted, the owning
\* thread is IcacheWaitResponse, the packet is on its way, retryPkt and
\* retryTid are cleared and the cache is no longer blocked, nothing else
\* changed.  With retryPkt held and the resend refused, nothing changes and
\* the port owes another retry.  With retryPkt null, cacheBlocked is cleared
\* and nothing else changes.  (The asserts at its head are C2's.)
C17_RetryOutcomes ==
    (failed = "" /\ phase = "idle" /\ retryOwed) =>
      LET s0 == [Begin EXCEPT !.retryOwed = FALSE]
          acc == [recvReqRetry(s0, TRUE) EXCEPT !.failed = ""]
          rej == [recvReqRetry(s0, FALSE) EXCEPT !.failed = ""]
      IN  IF retryPkt # NoReq
          THEN /\ retryTid \in Tids
               /\ acc = [s0 EXCEPT
                           !.fetchStatus[retryTid] = "IcacheWaitResponse",
                           !.icachePending[retryPkt] = @ + 1,
                           !.retryPkt = NoReq,
                           !.retryTid = InvalidThreadID,
                           !.cacheBlocked = FALSE]
               /\ rej = [s0 EXCEPT !.retryOwed = TRUE]
          ELSE /\ acc = [s0 EXCEPT !.cacheBlocked = FALSE]
               /\ rej = acc

\* C17, its case: the port has taken the resend of a refused packet, the
\* thread waits for the response and the cache is no longer blocked.
C17_Witness ==
    /\ failed = ""
    /\ phase = "idle"
    /\ ~retryOwed /\ ~cacheBlocked /\ retryPkt = NoReq
    /\ \E t \in Tids :
         /\ fetchStatus[t] = "IcacheWaitResponse"
         /\ memReq[t] # NoReq
         /\ icachePending[memReq[t]] > 0
         /\ reqs[memReq[t]].paddr \notin fetchesInProgress

\* processTrap has room for the nop of thread t
TrapRoom(t) == numInst < fetchWidth /\ Len(fetchQueue[t]) < fetchQueueSize

\* the fault of thread t is in its fetch queue: one more nop, TrapPending,
\* no demand request
TrapDelivered(t) ==
    /\ fetchQueue'[t] = Append(fetchQueue[t], "nop")
    /\ fetchStatus'[t] = "TrapPending"
    /\ memReq'[t] = NoReq

\* C18: when the MMU completes the translation of the pending demand of a
\* thread with a fault and there is room, exactly one nop is appended to
\* the thread's fetch queue, the thread is TrapPending and memReq[tid] is
\* null; when there is no room, nothing is enqueued, the thread stays as
\* it is and the deferred event holds the fault.  While the event holds
\* the fault of a thread that has not been squashed since, the thread stays
\* in ItlbWait with its request and nothing is added to its queue, until
\* the event delivers the fault as above.
C18_FaultSurfaced ==
    [][/\ \A tr \in mmuPending :
            LET t == reqs[tr.req].tid
            IN  (/\ tr \notin mmuPending'
                 /\ fetchStatus[t] = "ItlbWait" /\ memReq[t] = tr.req
                 /\ fetchStatus'[t] \notin {"IcacheWaitResponse",
                                            "IcacheWaitRetry", "NoGoodAddr"})
                => IF TrapRoom(t) THEN TrapDelivered(t)
                   ELSE /\ fetchQueue' = fetchQueue
                        /\ fetchStatus' = fetchStatus
                        /\ memReq' = memReq
                        /\ failed' = ""
                        /\ trapEvent'.scheduled
                        /\ trapEvent'.tid = t /\ trapEvent'.req = tr.req
       /\ (/\ trapEvent.scheduled /\ failed = ""
           /\ fetchStatus[trapEvent.tid] = "ItlbWait"
           /\ memReq[trapEvent.tid] = trapEvent.req
           /\ trapEvent.tid \notin squashed')
          => LET t == trapEvent.tid
             IN  /\ \/ /\ trapEvent'.scheduled
                       /\ trapEvent'.tid = t
                       /\ trapEvent'.req = trapEvent.req
                       /\ failed' = ""
                       /\ fetchStatus'[t] = "ItlbWait"
                       /\ memReq'[t] = memReq[t]
                       /\ Len(fetchQueue'[t]) <= Len(fetchQueue[t])
                       /\ fetchQueue'[t] =
                            SubSeq(fetchQueue[t],
                                   Len(fetchQueue[t]) - Len(fetchQueue'[t]) + 1,
                                   Len(fetchQueue[t]))
                    \/ /\ ~trapEvent'.scheduled
                       /\ TrapRoom(t)
                       /\ TrapDelivered(t)]_vars

\* C19: a thread in TrapPending or NoGoodAddr that no squash reaches keeps
\* its status, gets no instruction added to its fetch queue and starts no
\* translation and no cache access, whatever else happens.
C19_TrapWaitsForSquash ==
    [][\A t \in Tids :
         (/\ failed = ""
          /\ fetchStatus[t] \in {"TrapPending", "NoGoodAddr"}
          /\ t \notin squashed')
         => /\ fetchStatus'[t] = fetchStatus[t]
            /\ memReq'[t] = memReq[t]
            /\ Len(fetchQueue'[t]) <= Len(fetchQueue[t])
            /\ \A tr \in mmuPending' \ mmuPending : reqs'[tr.req].tid # t
            /\ \A r \in ReqIds : SentNow(r) => reqs'[r].tid # t]_vars

\* C20: when a tick reads a squash of commit and a squash of decode for the
\* same thread, the thread is squashed to the PC commit sent: it is
\* Squashing at that PC with an empty fetch queue, and the PC decode sent is
\* not used.
C20_CommitSquashWins ==
    [][\A t \in Tids :
         (sigSeen'[t].commitSquash /\ sigSeen'[t].decodeSquash)
         => /\ pc'[t] = sigSeen'[t].commitPC
            /\ fetchStatus'[t] = "Squashing"
            /\ t \in squashed'
            /\ fetchQueue'[t] = <<>>
            /\ macroop'[t] = sigSeen'[t].keepMacro]_vars

\* C20, its case: the tick has read both squashes for a thread, with
\* different PCs, and has gone on to fetch.
C20_Witness ==
    /\ failed = ""
    /\ phase = "fetch"
    /\ \E t \in Tids :
         /\ sigSeen[t].commitSquash /\ sigSeen[t].decodeSquash
         /\ sigSeen[t].commitPC # sigSeen[t].decodePC

\* C21: while cacheBlocked is set no packet goes to the I-cache port other
\* than the resend of retryPkt by recvReqRetry.
C21_NoSendWhileBlocked ==
    [][(failed = "" /\ cacheBlocked)
         => \A r \in ReqIds :
              icachePending'[r] > icachePending[r]
                => (r = retryPkt /\ retryPkt' = NoReq /\ ~retryOwed')]_vars

\* C29: whenever the I-cache port refuses a packet in performCacheAccess no
\* packet is waiting for a retry yet: retryPkt is null and retryTid invalid,
\* and the two asserts after the failed send hold.
C29_RetrySlotFree ==
    /\ failed \notin {"performCacheAccess: retryPkt == NULL",
                      "performCacheAccess: retryTid == InvalidThreadID"}
    /\ (retryPkt = NoReq) <=> (retryTid = InvalidThreadID)

\* C22: in a tick with an interrupt pending, a thread the arbiter selects
\* outside a delayed-commit window, be it Running or IcacheAccessComplete,
\* has no instruction added to its fetch queue and starts no translation
\* and no cache access in the fetch step.
C22_InterruptStalls ==
    [][\A t \in Tids :
         (/\ failed = "" /\ phase = "fetch"
          /\ interruptPending /\ ~delayedCommit[t]
          /\ getFetchingThread(Cur).ret = t
          /\ fetchStatus[t] \in {"Running", "IcacheAccessComplete"})
         => /\ fetchQueue'[t] = fetchQueue[t]
            /\ memReq'[t] = memReq[t]
            /\ mmuPending' = mmuPending
            /\ \A r \in ReqIds : ~SentNow(r)]_vars

\* position of thread t in the priority list l, 0 when it is not there
PosIn(l, t) ==
    LET is == {i \in 1 .. Len(l) : l[i] = t}
    IN  IF is = {} THEN 0 ELSE CHOOSE i \in is : TRUE

\* C23: under the round-robin policy the arbiter returns the first thread
\* of priorityList that is Running, IcacheAccessComplete or Idle and moves
\* it to the tail, the other threads keeping their order; with no such
\* thread it returns none and leaves the list alone.  The list stays a
\* permutation of the threads, and a thread at the tail that is the only
\* fetchable one is returned again and stays at the tail.
C23_RoundRobin ==
    [][cfg.fetchPolicy = "RoundRobin" /\ cfg.numThreads > 1 /\ phase = "idle"
       => LET n == Len(priorityList)
              fetchable == {t \in Tids : t < cfg.numThreads /\ Fetchable(Cur, t)}
          IN  /\ Len(priorityList') = n
              /\ {priorityList'[i] : i \in 1 .. n} = 0 .. (cfg.numThreads - 1)
              /\ IF fetchable = {}
                 THEN picked' = InvalidThreadID /\ priorityList' = priorityList
                 ELSE /\ picked' \in fetchable
                      /\ \A t \in fetchable :
                           PosIn(priorityList, picked') <= PosIn(priorityList, t)
                      /\ priorityList'[n] = picked'
                      /\ \A a, b \in Tids \ {picked'} :
                           (a < cfg.numThreads /\ b < cfg.numThreads)
                           => (PosIn(priorityList, a) < PosIn(priorityList, b)
                                 <=> PosIn(priorityList', a) < PosIn(priorityList', b))
                      /\ fetchable = {priorityList[n]}
                           => (picked' = priorityList[n]
                                 /\ priorityList' = priorityList)]_vars

\* C23, its case: the arbiter has passed over the thread at the head of the
\* list, which is not fetchable, and moved the thread it returned from the
\* middle of the list to the tail while another fetchable thread waits.
C23_Witness ==
    /\ failed = ""
    /\ cfg.fetchPolicy = "RoundRobin" /\ cfg.numThreads = 3
    /\ picked = priorityList[3]
    /\ ~Fetchable(Cur, priorityList[1])
    /\ Fetchable(Cur, priorityList[2])
    /\ priorityList[1] < priorityList[2]

\* C24: under the IQ-count and the LSQ-count policy the arbiter returns a
\* fetchable thread whose count, as IEW reports it, is the lowest among the
\* fetchable active threads whenever there is one, equal counts included,
\* and returns none only when no active thread is fetchable.
C24_LowestCount ==
    [][cfg.fetchPolicy \in {"IQCount", "LSQCount"} /\ cfg.numThreads > 1
         /\ phase = "idle"
       => LET fetchable == {t \in Tids : t < cfg.numThreads /\ Fetchable(Cur, t)}
              count(t) == IF cfg.fetchPolicy = "IQCount"
                          THEN iewInfo'[t].iqCount ELSE iewInfo'[t].ldstqCount
          IN  IF fetchable = {} THEN picked' = InvalidThreadID
              ELSE /\ picked' \in fetchable
                   /\ \A t \in fetchable : count(picked') <= count(t)]_vars

\* no active thread is Running, IcacheAccessComplete or Idle
NoneFetchable ==
    \A t \in Tids : t < cfg.numThreads => ~Fetchable(Cur, t)

\* what a fetch step that finds no thread leaves alone: the fetch queues,
\* the statuses, the requests, the translations and packets under way, the
\* decode wire
IdleFetchFrame ==
    /\ fetchQueue' = fetchQueue /\ numInst' = numInst
    /\ fetchStatus' = fetchStatus /\ memReq' = memReq
    /\ reqs' = reqs /\ mmuPending' = mmuPending
    /\ icachePending' = icachePending /\ retryPkt' = retryPkt
    /\ outstandingTranslations' = outstandingTranslations
    /\ fetchBufferValid' = fetchBufferValid /\ pc' = pc
    /\ toDecode' = toDecode
    /\ failed' = ""

\* C25 as stated: in a tick in which the arbiter finds no fetchable thread
\* the fetch step builds no instruction, issues no translation and no cache
\* request and changes no status, and nothing is written to the decode wire
\* in that tick.
C25_IdleTickNoOutput ==
    [][/\ (failed = "" /\ phase = "fetch" /\ NoneFetchable) => IdleFetchFrame
       /\ (failed = "" /\ phase = "forward" /\ idleFetch) => toDecode' = 0]_vars

\* C25, amended: in a tick in which the arbiter finds no fetchable thread
\* the fetch step builds no instruction, issues no translation and no cache
\* request, changes no status and ends the fetch loop of the tick; the
\* forwarding step of that tick still hands the instructions already queued
\* by threads that are not decode-stalled to decode, up to decodeWidth.
C25_IdleFetchStep ==
    [][/\ (failed = "" /\ phase = "fetch" /\ NoneFetchable)
            => (IdleFetchFrame /\ phase' = "pipeline" /\ idleFetch')
       /\ (failed = "" /\ phase = "forward" /\ idleFetch)
            => toDecode' = Min(decodeWidth, QueuedUnstalled)]_vars

\* C25, its case: the arbiter has found no thread in this tick while the
\* nop of a fault waits in a fetch queue for the forwarding step.
C25_Witness ==
    /\ failed = ""
    /\ phase = "forward" /\ idleFetch
    /\ \E t \in Tids : fetchStatus[t] = "TrapPending" /\ fetchQueue[t] # <<>>
                          /\ ~stalls[t].decode

\* the physical addresses of the packets the I-cache has accepted and not
\* answered yet
InFlightPaddrs ==
    {reqs[r].paddr : r \in {q \in ReqIds : icachePending[q] > 0}}

\* C26: a physical address is in fetchesInProgress exactly when a packet for
\* it has been accepted by the I-cache port and not answered yet.
C26_InProgressExact ==
    (failed = "") => fetchesInProgress = InFlightPaddrs

\* C27: pfIssued = pfReceived + pfLate + pfSquashed + outstandingPrefetches
\* in every state, so pfSquashed is at most pfIssued; a squash adds the
\* value outstandingPrefetches had to pfSquashed and leaves it at 0.
C27_PrefetchBalance ==
    [][/\ pfStats'.pfIssued = pfStats'.pfReceived + pfStats'.pfLate
                                + pfStats'.pfSquashed + outstandingPrefetches'
       /\ pfStats'.pfSquashed <= pfStats'.pfIssued
       /\ (phase \in {"idle", "signals"} /\ squashed' # {})
            => /\ pfStats'.pfSquashed =
                    pfStats.pfSquashed + outstandingPrefetches
               /\ outstandingPrefetches' = 0]_vars

\* C27, its case: a squash has found a prefetch outstanding and has
\* counted it in pfSquashed.
C27_Witness ==
    /\ failed = ""
    /\ squashed # {}
    /\ "pfSquashed" \in counted
    /\ pfStats.pfIssued > 0
    /\ pfStats.pfSquashed = pfStats.pfIssued
    /\ outstandingPrefetches = 0

\* the BAC is told to squash and to go on at pc
Resteered(t, at) ==
    /\ ~ftqValid'[t]
    /\ toBAC'[t] = [squash |-> TRUE, nextPC |-> at]

\* C28: with the decoupled front-end, when the PC of the selected thread is
\* outside the head fetch target the FTQ is invalidated and the BAC is told
\* to squash to the thread's PC, no instruction is queued, no request is
\* made, nothing is sent and the status stays; when the head was consumed
\* and the next fetch target does not cover the PC fetch has reached, the
\* FTQ is invalidated and the BAC is told to squash to that PC.
C28_Resteer ==
    [][\A t \in Tids :
         (/\ failed = "" /\ phase = "fetch" /\ cfg.decoupledFrontEnd
          /\ getFetchingThread(Cur).ret = t /\ ftIsHeadReady(Cur, t))
         => /\ ~ftInRange(ftq[t][1], pc[t])
                 => /\ Resteered(t, pc[t])
                    /\ pc'[t] = pc[t]
                    /\ fetchQueue'[t] = fetchQueue[t]
                    /\ fetchStatus'[t] = fetchStatus[t]
                    /\ memReq'[t] = memReq[t]
                    /\ reqs' = reqs /\ mmuPending' = mmuPending
                    /\ \A r \in ReqIds : ~SentNow(r)
            /\ (/\ ftq'[t] = Tail(ftq[t]) /\ ftq'[t] # <<>>
                /\ ~ftInRange(ftq'[t][1], pc'[t]))
                 => Resteered(t, pc'[t])]_vars

\* C28, its case: fetch has consumed the head fetch target, the next one
\* does not cover the PC it has reached, and the BAC has been told.
C28_Witness ==
    /\ failed = ""
    /\ \E t \in Tids :
         /\ toBAC[t].squash /\ toBAC[t].nextPC = pc[t] /\ ~ftqValid[t]
         /\ numInst > 0
         /\ ftq[t] # <<>> /\ ~ftInRange(ftq[t][1], pc[t])

\* isDrained: every fetch queue is empty and every thread is Idle, or
\* Blocked with the drain stall set; finishTranslationEvent is never
\* scheduled
isDrained(s) ==
    \A i \in 0 .. (s.cfg.numThreads - 1) :
        /\ s.fetchQueue[i] = <<>>
        /\ \/ s.fetchStatus[i] = "Idle"
           \/ s.fetchStatus[i] = "Blocked" /\ s.stalls[i].drain

\* C30: whenever isDrained() returns true, what drainSanityCheck asserts
\* holds: no retry packet, no retry thread, the cache not blocked, no
\* interrupt pending and no memory request of any thread.
C30_DrainedIsSane ==
    (failed = "" /\ isDrained(Cur))
    => /\ retryPkt = NoReq
       /\ retryTid = InvalidThreadID
       /\ ~cacheBlocked
       /\ ~interruptPending
       /\ \A i \in 0 .. (cfg.numThreads - 1) : memReq[i] = NoReq

\* C31: outstandingTranslations is the number of translations the MMU was
\* given and has not completed, so it is never negative and is 0 when none
\* is pending; a squash does not change it.
C31_TranslationsCounted ==
    /\ [](failed = ""
            => outstandingTranslations = Cardinality(mmuPending))
    /\ [][(failed = "" /\ squashed' # {} /\ failed' = "")
          => outstandingTranslations' = outstandingTranslations]_vars

\* C31, its case: a thread is squashed while its translation is pending.
C31_Witness ==
    /\ failed = "" /\ squashed # {}
    /\ outstandingTranslations = 1
    /\ \E tr \in mmuPending : reqs[tr.req].tid \in squashed

\* C32: a decode squash signal that finds the thread Squashing is not
\* applied: PC, macroop and fetch queue of the thread stay, and the thread
\* leaves Squashing: to Blocked under a drain stall, to FTQEmpty when the
\* decoupled FTQ is empty, to Running otherwise.
C32_DecodeSquashIgnored ==
    [][\A t \in Tids :
         (/\ failed = "" /\ phase \in {"idle", "signals"}
          /\ phase' \in {"signals", "fetch"} /\ t = sigTid
          /\ fetchStatus[t] = "Squashing"
          /\ sigSeen'[t].decodeSquash /\ ~sigSeen'[t].commitSquash)
         => /\ failed' = "" /\ t \notin squashed'
            /\ pc'[t] = pc[t] /\ macroop'[t] = macroop[t]
            /\ fetchQueue'[t] = fetchQueue[t]
            /\ fetchStatus'[t] =
                 IF stalls[t].drain THEN "Blocked"
                 ELSE IF cfg.decoupledFrontEnd /\ ftq[t] = <<>>
                 THEN "FTQEmpty" ELSE "Running"]_vars

\* C32, its case: decode's squash signal found the thread Squashing at a
\* PC other than the one decode names, and the thread is Running there.
C32_Witness ==
    /\ failed = "" /\ phase = "fetch" /\ squashed = {}
    /\ \E t \in Tids :
         /\ sigSeen[t].decodeSquash /\ ~sigSeen[t].commitSquash
         /\ fetchStatus[t] = "Running" /\ pc[t] # sigSeen[t].decodePC

C34_StaleTrapDropped ==
    [][(/\ failed = "" /\ phase = "idle" /\ phase' = "idle"
        /\ trapEvent.scheduled /\ ~trapEvent.fresh
        /\ trapEvent' # trapEvent
        /\ fetchStatus[trapEvent.tid] = "Squashing")
         => /\ fetchStatus'[trapEvent.tid] # "TrapPending"
            /\ memReq' = memReq
            /\ fetchQueue' = fetchQueue]_vars

\* C35: a run of the FTQ prefetcher leaves the demand state alone: the
\* status, the demand request and the fetch buffer tag of every thread, the
\* retry packet and its thread, and cacheBlocked.
C35_PrefetchLeavesDemand ==
    [][(failed = "" /\ phase = "ftq" /\ failed' = "")
         => /\ fetchStatus' = fetchStatus /\ memReq' = memReq
            /\ fetchBufferPC' = fetchBufferPC
            /\ fetchBufferValid' = fetchBufferValid
            /\ retryPkt' = retryPkt /\ retryTid' = retryTid
            /\ cacheBlocked' = cacheBlocked]_vars

\* C36: while cacheBlocked is set the I-cache port owes the unit a retry
\* callback, and under the port contract cacheBlocked is cleared in the
\* end, also when a squash has dropped the retry packet.
C36_BlockIsCleared ==
    /\ [](failed = "" /\ cacheBlocked => retryOwed)
    /\ (failed = "" /\ cacheBlocked) ~> (~cacheBlocked \/ failed # "")

\* C36, its case: a squash has dropped the retry packet, cacheBlocked is
\* still set and the port has not called back yet.
C36_Witness ==
    /\ failed = "" /\ cacheBlocked /\ retryOwed
    /\ retryPkt = NoReq /\ retryTid = InvalidThreadID
    /\ squashed # {}

\* the fetch block of the thread's PC is valid in its fetch buffer
Buffered(t) ==
    fetchBufferValid[t] /\ fetchBufferPC[t] = fetchBufferAlignPC(pc[t])

\* C37: without the FTQ, left alone by squashes, interrupts and stalls and
\* answered by the MMU and the I-cache, a Running thread whose fetch block
\* is not buffered gets to decode an instruction, and on the way its
\* status only moves from Running to ItlbWait, to IcacheWaitResponse, to
\* IcacheAccessComplete and back to Running.
C37_FetchCompletes ==
    /\ \A t \in {0, 1} :
         (failed = "" /\ fetchStatus[t] = "Running" /\ ~Buffered(t))
           ~> (fetchQueue[t] # <<>> /\ fetchBufferValid[t])
    /\ \A t \in {0, 1} :
         (fetchStatus[t] \in {"ItlbWait", "IcacheWaitResponse",
                              "IcacheAccessComplete"})
           ~> (fetchStatus[t] = "Running")
    /\ [][\A t \in {0, 1} :
           fetchStatus'[t] # fetchStatus[t]
             => <<fetchStatus[t], fetchStatus'[t]>> \in
                  {<<"Running", "ItlbWait">>,
                   <<"Running", "IcacheWaitResponse">>,
                   <<"ItlbWait", "IcacheWaitResponse">>,
                   <<"IcacheWaitResponse", "IcacheAccessComplete">>,
                   <<"IcacheAccessComplete", "Running">>}]_vars
    /\ [](failed = "")

\* C37, its case: the thread has decoded from a block it had to wait for.
C37_Witness ==
    /\ failed = "" /\ numInst > 0 /\ phase = "pipeline"
    /\ \E t \in {0, 1} :
         /\ fetchStatus[t] = "Running" /\ fetchBufferValid[t]
         /\ fetchBufferPC[t] # 0 /\ fetchQueue[t] # <<>>

\* the statuses the threads can be in over numThreads consecutive calls of
\* the arbiter while thread t stays in the fetchable status st
StayingFetchable(t, st) ==
    {sts \in [1 .. cfg.numThreads -> [Tids -> {st, "ItlbWait"}]] :
       \A k \in 1 .. cfg.numThreads : sts[k][t] = st}

\* C38: under the round-robin policy, from every reachable priority list, a
\* thread that stays Running, IcacheAccessComplete or Idle is returned at
\* least once by any numThreads consecutive successful selections, whatever
\* the other threads do meanwhile; and a selection that returns another
\* thread moves the waiting thread one place towards the head of the list.
C38_NoStarvation ==
    /\ [](failed = "" /\ cfg.fetchPolicy = "RoundRobin" /\ cfg.numThreads > 1
           /\ phase = "idle"
          => \A c \in {Cur} : \A t \in 0 .. (cfg.numThreads - 1) :
               fetchStatus[t] \in {"Running", "IcacheAccessComplete", "Idle"}
                 => \A sts \in StayingFetchable(t, fetchStatus[t]) :
                      \A sel \in {selections(c, sts)} :
                        t \in sel /\ InvalidThreadID \notin sel)
    /\ [][cfg.fetchPolicy = "RoundRobin" /\ cfg.numThreads > 1 /\ phase = "idle"
          => \A t \in 0 .. (cfg.numThreads - 1) :
               (fetchStatus[t] \in {"Running", "IcacheAccessComplete", "Idle"}
                  /\ picked' # t)
                 => /\ picked' # InvalidThreadID
                    /\ PosIn(priorityList', t) = PosIn(priorityList, t) - 1]_vars

\* C38, its case: three threads are fetchable, the arbiter has just returned
\* one of them and moved it to the tail, and the thread now at the head is
\* the one that has waited longest.
C38_Witness ==
    /\ failed = ""
    /\ cfg.fetchPolicy = "RoundRobin" /\ cfg.numThreads = 3
    /\ \A t \in 0 .. 2 : Fetchable(Cur, t)
    /\ picked = priorityList[3]
    /\ priorityList # <<0, 1, 2>>

\* C39: from startupStage on, the activateStage and deactivateStage calls
\* the fetch unit makes on the CPU alternate, the first being the
\* activation of startupStage: no call repeats the call before it, and
\* _status is Active exactly when the last call was activateStage.
C39_NotesAlternate ==
    /\ [](~stageNote.repeated)
    /\ [](status_ = "Active" <=> stageNote.last = "activateStage")
    /\ [][stageNote'.last # stageNote.last <=> status_' # status_]_vars

\* C39, its case: the only thread waits for its translation or its cache
\* line, the stage has told the CPU it is inactive, and the tick is over.
C39_Witness ==
    /\ failed = "" /\ phase = "idle"
    /\ status_ = "Inactive" /\ stageNote.last = "deactivateStage"
    /\ fetchStatus[0] \in {"ItlbWait", "IcacheWaitResponse"}
====
